---- MODULE Spec2Model ----
(***************************************************************************)
(* SUNA-ALSHAM: validation gate (validation_system.py), metrics store      *)
(* (metrics_system.py) and the CORE agent's acceptance of a new baseline   *)
(* (core_agent.py).                                                        *)
(*                                                                         *)
(* Units.  Performance values are held in hundredths (0.70 is 70), so the  *)
(* code's range [0.0, 1.0] is 0..100 and its absolute floor 0.05 is 5.     *)
(* Improvement percentages are held in tenths of a percent (20.0 % is      *)
(* 200).  Time is held in days.  Arithmetic is exact: every comparison of  *)
(* a mean, a standard deviation or a t statistic is cross-multiplied into  *)
(* integers, so the rounding of binary floating point is not represented.  *)
(***************************************************************************)
EXTENDS Integers, Sequences, FiniteSets, TLC

VARIABLES
    now,                  \* datetime.utcnow(), in days
    supabase_client,      \* "ok" | "none" (client is None) | "failing" (execute() raises)
    performance_metrics,  \* rows of table 'performance_metrics' (written outside this code)
    validation_history,   \* ValidationSystem.validation_history
    validation_cache,     \* ValidationSystem.validation_cache : agent -> verdict
    validation_results,   \* rows of table 'validation_results'
    next_uuid,            \* stands for uuid.uuid4(): a fresh value on every draw
    call,                 \* the latest validate_improvement call and what it returned
    metrics_history,      \* MetricsSystem.metrics_history
    metrics_cache,        \* MetricsSystem.metrics_cache : agent -> consolidated metrics
    system_metrics,       \* rows of table 'system_metrics'
    metric_call,          \* the latest collect_performance_metric call and what it returned
    agents_table,         \* rows of table 'agents'
    agent_interactions,   \* rows of table 'agent_interactions'
    security_logs,        \* rows of table 'security_logs'
    last_analysis,        \* MetricsSystem.last_analysis
    read_call,            \* the latest read operation of MetricsSystem and its output
    performance_seen,     \* agent -> the output of its latest get_performance_metrics
    pc,                   \* CoreAgent.run_evolution_cycle: the step it is at
    current_performance,  \* CoreAgent.current_performance   (in hundredths)
    baseline_performance, \* CoreAgent.baseline_performance
    improvement_history,  \* CoreAgent.improvement_history
    cycle,                \* locals of the running evolution cycle
    config,               \* SUNAAlshamIntegration: max_concurrent_evolutions, auto_start
    is_running,           \* SUNAAlshamIntegration.is_running
    db_connection,        \* SUNAAlshamIntegration.db_connection is set
    agents,               \* SUNAAlshamIntegration.agents : the names, in dict order
    evolution_cycles,     \* SUNAAlshamIntegration.evolution_cycles
    loop_tasks,           \* the tasks running _evolution_cycle_loop, as created
    integration_call,     \* the latest start_system or stop_system call and its outcome
    cycle_call,           \* the latest _run_evolution_cycle execution and what it returned
    tasks                 \* asyncio tasks that record metrics: task -> its position

vars == <<now, supabase_client, performance_metrics, validation_history,
          validation_cache, validation_results, next_uuid, call,
          metrics_history, metrics_cache, system_metrics, metric_call,
          agents_table, agent_interactions, security_logs, last_analysis,
          read_call, performance_seen, pc, current_performance,
          baseline_performance, improvement_history, cycle, config,
          is_running, db_connection, agents, evolution_cycles, loop_tasks,
          integration_call, cycle_call, tasks>>

validationVars == <<validation_history, validation_cache, validation_results, call>>
healthTables   == <<agents_table, agent_interactions, security_logs>>
readVars       == <<read_call, performance_seen>>
metricsVars    == <<metrics_history, metrics_cache, system_metrics, metric_call,
                    healthTables, last_analysis, readVars>>
coreVars       == <<pc, current_performance, baseline_performance,
                    improvement_history, cycle>>
integrationVars == <<config, is_running, db_connection, agents,
                     evolution_cycles, loop_tasks, integration_call, cycle_call>>

----------------------------------------------------------------------------
(* Bounds of the model *)

MaxRows        == 5    \* rows of 'performance_metrics' held for one agent
MaxValidations == 3    \* validate_improvement calls in one behaviour
MaxRecords     == 2    \* collect_performance_metric calls in one behaviour
MaxImprovements == 2   \* improvements generated by one analysis
MaxHealthRows  == 2    \* rows of 'performance_metrics' read by the health analysis
MaxCycles      == 2    \* evolution cycles of the CORE agent in one behaviour
MaxLoopCycles  == 2    \* iterations of _evolution_cycle_loop in one behaviour
MaxLoopTasks   == 2    \* loop tasks created in one behaviour

----------------------------------------------------------------------------
(* Python values.  A value is a number, NaN, a non-numeric object (a       *)
(* string), None, or the absence of the key.                               *)

Num(x)  == [kind |-> "num", v |-> x]
NaN     == [kind |-> "nan", v |-> 0]
Str     == [kind |-> "str", v |-> 0]
None    == [kind |-> "none", v |-> 0]
Missing == [kind |-> "missing", v |-> 0]

IsNum(x) == x.kind = "num"
IsNaN(x) == x.kind = "nan"
IsStr(x) == x.kind = "str"

\* dict.get(key, default)
Get(d, key, default) == IF d[key].kind = "missing" THEN Num(default) ELSE d[key]

\* a >= b, a > b, a <= b on floats: every comparison with NaN is False.
\* (A comparison with a non-numeric operand raises; callers test IsStr first.)
Ge(a, b) == IsNum(a) /\ IsNum(b) /\ a.v >= b.v
Gt(a, b) == IsNum(a) /\ IsNum(b) /\ a.v > b.v
Le(a, b) == IsNum(a) /\ IsNum(b) /\ a.v <= b.v

Abs(x) == IF x < 0 THEN -x ELSE x

RECURSIVE SumSeq(_)
SumSeq(s) == IF s = <<>> THEN 0 ELSE Head(s) + SumSeq(Tail(s))

RECURSIVE SumSq(_)
SumSq(s) == IF s = <<>> THEN 0 ELSE Head(s) * Head(s) + SumSq(Tail(s))

\* n*(n-1) times statistics.variance(s):  n*sum(x^2) - (sum x)^2
VarNum(s) == Len(s) * SumSq(s) - SumSeq(s) * SumSeq(s)

RECURSIVE MapField(_, _)
MapField(s, f) == IF s = <<>> THEN <<>> ELSE <<Head(s)[f].v>> \o MapField(Tail(s), f)

----------------------------------------------------------------------------
(* ValidationSystem configuration (defaults of __init__) *)

min_improvement_percentage == 200   \* 20.0 %
significance_level         == 5     \* 0.05, in hundredths
min_sample_size            == 5
MeaningfulChange           == 5     \* 0.05 absolute floor
HistoryDays                == 30    \* _get_performance_history(days=30)
RecentDays                 == 7     \* _get_recent_improvements(days=7)
PatternDays                == 30    \* _analyze_improvement_pattern: days=30

----------------------------------------------------------------------------
(* The store as the validation system reads it *)

Agents == {"a1", "a2"}

Range(s) == {s[i] : i \in 1..Len(s)}

RowsOf(agent, days) ==
    SelectSeq(performance_metrics,
              LAMBDA r : r.agent_id = agent /\ r.timestamp >= now - days)

\* ValidationSystem._get_performance_history
PerformanceHistory(agent) ==
    IF supabase_client # "ok" THEN <<>>
    ELSE MapField(SelectSeq(RowsOf(agent, HistoryDays),
                            LAMBDA r : r.current_value.kind # "none"),
                  "current_value")

\* ValidationSystem._get_recent_improvements (the improvement_percentage of each record)
RecentImprovements(agent, days) ==
    IF supabase_client # "ok" THEN <<>>
    ELSE MapField(SelectSeq(RowsOf(agent, days),
                            LAMBDA r : r.improvement_percentage.kind # "none"),
                  "improvement_percentage")

----------------------------------------------------------------------------
(* The five criteria, in the order validate_improvement evaluates them *)

\* |t| > k10/10 for t = (new - mean) / (std / sqrt(n)), cross-multiplied:
\* t^2 = (n*new - S)^2 * (n-1) / VarNum
AbsTGreater(h, new, k10) ==
    LET n == Len(h)
        d == n * new - SumSeq(h)
    IN  100 * d * d * (n - 1) > k10 * k10 * VarNum(h)

\* Faulty variant: a history of exactly min_sample_size samples counts as too short.
SampleInsufficient_Exclusive(h) == Len(h) <= min_sample_size

\* Faulty variant: a history one sample short of min_sample_size is let through.
SampleInsufficient_OneShort(h) == Len(h) < min_sample_size - 1

\* len(performance_history) < self.min_sample_size
SampleInsufficient(h) == Len(h) < min_sample_size

\* ValidationSystem._validate_statistical_significance
\* (the stdev fallback 0.1 for a single sample is behind min_sample_size = 5)
ValidateStatisticalSignificance(agent, data) ==
    LET h   == PerformanceHistory(agent)
        n   == Len(h)
        new == Get(data, "new_performance", 0)
    IN  IF SampleInsufficient(h)
        THEN [passed |-> FALSE, outcome |-> "insufficient", sample_size |-> n]
        ELSE IF IsStr(new)                      \* new - mean raises TypeError
        THEN [passed |-> FALSE, outcome |-> "error", sample_size |-> n]
        ELSE IF VarNum(h) = 0                   \* stdev is 0.0: float division by zero
        THEN [passed |-> FALSE, outcome |-> "error", sample_size |-> n]
        ELSE IF IsNaN(new)                      \* t is NaN, every comparison is False
        THEN [passed |-> FALSE, outcome |-> "computed", sample_size |-> n]
        ELSE LET critical_value == IF n - 1 > 30 THEN 20 ELSE 25
                 is_significant == AbsTGreater(h, new.v, critical_value)
                 p_value_approx == IF AbsTGreater(h, new.v, 30) THEN 1
                                   ELSE IF AbsTGreater(h, new.v, 20) THEN 5 ELSE 10
             IN  [passed |-> is_significant /\ p_value_approx < significance_level,
                  outcome |-> "computed", sample_size |-> n]

\* The comparisons of _validate_practical_significance and _validate_bounds
\* raise TypeError when a field is not a number.
RaisesOnFields(data) ==
    \/ IsStr(Get(data, "improvement_percentage", 0))
    \/ IsStr(Get(data, "old_performance", 0))
    \/ IsStr(Get(data, "new_performance", 0))

\* Faulty variant: the threshold is compared with > instead of >=.
ValidatePracticalSignificance_StrictThreshold(data) ==
    LET improvement_percentage == Get(data, "improvement_percentage", 0)
        old_performance == Get(data, "old_performance", 0)
        new_performance == Get(data, "new_performance", 0)
        meets_threshold == Gt(improvement_percentage, Num(min_improvement_percentage))
        positive_improvement == Gt(new_performance, old_performance)
        meaningful_change ==
            /\ IsNum(new_performance) /\ IsNum(old_performance)
            /\ Abs(new_performance.v - old_performance.v) >= MeaningfulChange
    IN  [passed |-> meets_threshold /\ positive_improvement /\ meaningful_change,
         threshold_met |-> meets_threshold,
         positive_change |-> positive_improvement,
         meaningful_change |-> meaningful_change]

\* Faulty variant: the absolute floor of the change is not part of the verdict.
ValidatePracticalSignificance_NoAbsoluteFloor(data) ==
    LET improvement_percentage == Get(data, "improvement_percentage", 0)
        old_performance == Get(data, "old_performance", 0)
        new_performance == Get(data, "new_performance", 0)
        meets_threshold == Ge(improvement_percentage, Num(min_improvement_percentage))
        positive_improvement == Gt(new_performance, old_performance)
        meaningful_change ==
            /\ IsNum(new_performance) /\ IsNum(old_performance)
            /\ Abs(new_performance.v - old_performance.v) >= MeaningfulChange
    IN  [passed |-> meets_threshold /\ positive_improvement,
         threshold_met |-> meets_threshold,
         positive_change |-> positive_improvement,
         meaningful_change |-> meaningful_change]

\* ValidationSystem._validate_practical_significance
ValidatePracticalSignificance(data) ==
    LET improvement_percentage == Get(data, "improvement_percentage", 0)
        old_performance == Get(data, "old_performance", 0)
        new_performance == Get(data, "new_performance", 0)
        meets_threshold == Ge(improvement_percentage, Num(min_improvement_percentage))
        positive_improvement == Gt(new_performance, old_performance)
        meaningful_change ==
            /\ IsNum(new_performance) /\ IsNum(old_performance)
            /\ Abs(new_performance.v - old_performance.v) >= MeaningfulChange
    IN  [passed |-> meets_threshold /\ positive_improvement /\ meaningful_change,
         threshold_met |-> meets_threshold,
         positive_change |-> positive_improvement,
         meaningful_change |-> meaningful_change]

\* ValidationSystem._validate_reproducibility
ValidateReproducibility(agent, data) ==
    LET recent == RecentImprovements(agent, RecentDays)
        cur    == Get(data, "improvement_percentage", 0)
    IN  IF Len(recent) < 2
        THEN [passed |-> TRUE, outcome |-> "first"]
        ELSE IF ~IsNum(cur)                     \* statistics.mean / stdev raise
        THEN [passed |-> FALSE, outcome |-> "error"]
        ELSE LET all == Append(recent, cur.v)
                 n   == Len(all)
                 S   == SumSeq(all)
                 \* cv = std / mean if mean > 0 else inf ;  cv < 0.5
                 is_reproducible == S > 0 /\ 4 * n * VarNum(all) < (n - 1) * S * S
             IN  [passed |-> is_reproducible, outcome |-> "computed"]

\* percentages[-len(percentages)//2:] : the last ceil(n/2) entries
RecentHalf(p) == SubSeq(p, Len(p) - ((Len(p) + 1) \div 2) + 1, Len(p))
\* percentages[:len(percentages)//2] : the first floor(n/2) entries
OlderHalf(p)  == SubSeq(p, 1, Len(p) \div 2)

\* ValidationSystem._analyze_improvement_pattern ; None below 3 records
AnalyzeImprovementPattern(agent) ==
    LET p == RecentImprovements(agent, PatternDays)
    IN  IF Len(p) < 3 THEN [present |-> FALSE]
        ELSE LET r == RecentHalf(p)
                 o == OlderHalf(p)
             IN  [present |-> TRUE,
                  percentages |-> p,
                  recent_half |-> r,
                  trend |-> IF 10 * SumSeq(r) * Len(o) > 11 * SumSeq(o) * Len(r)
                            THEN "improving"
                            ELSE IF 10 * SumSeq(r) * Len(o) < 9 * SumSeq(o) * Len(r)
                            THEN "declining" ELSE "stable"]

\* min_expected <= cur <= max_expected for the range mean -/+ 2 std, floor 0
WithinExpectedRange(p, cur) ==
    LET n == Len(p)
        d == n * cur - SumSeq(p)               \* n * (cur - mean)
        near == d * d * (n - 1) <= 4 * n * VarNum(p)
    IN  /\ cur >= 0
        /\ (d >= 0 \/ near)                    \* mean - 2 std <= cur
        /\ (d <= 0 \/ near)                    \* cur <= mean + 2 std

\* ValidationSystem._validate_consistency
ValidateConsistency(agent, data) ==
    LET pattern == AnalyzeImprovementPattern(agent)
        cur     == Get(data, "improvement_percentage", 0)
    IN  IF ~pattern.present
        THEN [passed |-> TRUE, outcome |-> "no_pattern"]
        ELSE IF IsStr(cur)                      \* TypeError: "must not block"
        THEN [passed |-> TRUE, outcome |-> "error"]
        ELSE IF IsNaN(cur)
        THEN [passed |-> FALSE, outcome |-> "computed"]
        ELSE LET r == pattern.recent_half
                 trend_consistent ==
                     /\ ~(pattern.trend = "improving" /\ cur.v * Len(r) < SumSeq(r))
                     /\ ~(pattern.trend = "declining" /\ cur.v * Len(r) > SumSeq(r))
             IN  [passed |-> WithinExpectedRange(pattern.percentages, cur.v)
                             /\ trend_consistent,
                  outcome |-> "computed"]

\* Faulty variant: only old_performance is held against [0, 1].
ValidateBounds_OldOnly(data) ==
    LET old_performance == Get(data, "old_performance", 0)
        improvement_percentage == Get(data, "improvement_percentage", 0)
        performance_in_bounds ==
            Le(Num(0), old_performance) /\ Le(old_performance, Num(100))
        improvement_reasonable ==
            /\ Le(Num(-1000), improvement_percentage)
            /\ Le(improvement_percentage, Num(10000))
        no_negative_performance == Ge(old_performance, Num(0))
    IN  [passed |-> performance_in_bounds /\ improvement_reasonable
                    /\ no_negative_performance,
         performance_in_bounds |-> performance_in_bounds,
         improvement_reasonable |-> improvement_reasonable,
         no_negative_values |-> no_negative_performance]

\* ValidationSystem._validate_bounds
ValidateBounds(data) ==
    LET old_performance == Get(data, "old_performance", 0)
        new_performance == Get(data, "new_performance", 0)
        improvement_percentage == Get(data, "improvement_percentage", 0)
        performance_in_bounds ==
            /\ Le(Num(0), old_performance) /\ Le(old_performance, Num(100))
            /\ Le(Num(0), new_performance) /\ Le(new_performance, Num(100))
        improvement_reasonable ==
            /\ Le(Num(-1000), improvement_percentage)
            /\ Le(improvement_percentage, Num(10000))
        no_negative_performance ==
            Ge(old_performance, Num(0)) /\ Ge(new_performance, Num(0))
    IN  [passed |-> performance_in_bounds /\ improvement_reasonable
                    /\ no_negative_performance,
         performance_in_bounds |-> performance_in_bounds,
         improvement_reasonable |-> improvement_reasonable,
         no_negative_values |-> no_negative_performance]

----------------------------------------------------------------------------
(* validate_improvement *)

CriteriaOrder == <<"statistical", "practical", "reproducibility", "consistency", "bounds">>

Weight(category) ==
    CASE category = "statistical"     -> 30
      [] category = "practical"       -> 25
      [] category = "reproducibility" -> 20
      [] category = "consistency"     -> 15
      [] category = "bounds"          -> 10

RECURSIVE WeightedSum(_, _, _)
WeightedSum(results, cats, scored) ==
    IF cats = <<>> THEN 0
    ELSE (IF scored /\ ~results[Head(cats)].passed THEN 0 ELSE Weight(Head(cats)))
         + WeightedSum(results, Tail(cats), scored)

\* ValidationSystem._calculate_confidence_score, in hundredths
CalculateConfidenceScore(results) ==
    LET total_score  == WeightedSum(results, CriteriaOrder, TRUE)
        total_weight == WeightedSum(results, CriteriaOrder, FALSE)
    IN  IF total_weight > 0 THEN (100 * total_score) \div total_weight ELSE 0

RecStatistical     == "Aumentar tamanho da amostra para melhor significancia estatistica"
RecPractical       == "Buscar melhorias mais substanciais para significancia pratica"
RecReproducibility == "Melhorar consistencia das melhorias para maior reprodutibilidade"
RecConsistency     == "Alinhar melhorias com padrao historico do agente"
RecBounds          == "Verificar calculos - valores fora dos limites aceitaveis"
RecApproved        == "Validacao aprovada - continuar com melhorias"

\* ValidationSystem._generate_recommendations
GenerateRecommendations(results) ==
    LET recs ==
            (IF ~results.statistical.passed THEN <<RecStatistical>> ELSE <<>>)
         \o (IF ~results.practical.passed THEN <<RecPractical>> ELSE <<>>)
         \o (IF ~results.reproducibility.passed THEN <<RecReproducibility>> ELSE <<>>)
         \o (IF ~results.consistency.passed THEN <<RecConsistency>> ELSE <<>>)
         \o (IF ~results.bounds.passed THEN <<RecBounds>> ELSE <<>>)
    IN  IF recs = <<>> THEN <<RecApproved>> ELSE recs

\* Faulty variant: any() in place of all().
AllPassed_Any(results) == \E c \in Range(CriteriaOrder) : results[c].passed

\* all(result.get("passed", False) for result in validation_results.values())
AllPassed(results) == \A c \in Range(CriteriaOrder) : results[c].passed

\* The body of the try block of validate_improvement, up to final_validation.
\* raised: an exception reached the handler of validate_improvement;
\* order: the criteria whose evaluation was started, in sequence.
ValidateImprovementResult(agent, data, validation_id) ==
    IF RaisesOnFields(data)
    THEN [raised |-> TRUE,
          order  |-> <<"statistical", "practical">>,
          verdict |-> [validation_id |-> validation_id,
                       agent_id |-> agent,
                       error |-> "TypeError",
                       overall_passed |-> FALSE,
                       timestamp |-> now]]
    ELSE LET results == [statistical     |-> ValidateStatisticalSignificance(agent, data),
                         practical       |-> ValidatePracticalSignificance(data),
                         reproducibility |-> ValidateReproducibility(agent, data),
                         consistency     |-> ValidateConsistency(agent, data),
                         bounds          |-> ValidateBounds(data)]
         IN  [raised |-> FALSE,
              order  |-> CriteriaOrder,
              verdict |-> [validation_id |-> validation_id,
                           agent_id |-> agent,
                           timestamp |-> now,
                           improvement_data |-> data,
                           validation_results |-> results,
                           overall_passed |-> AllPassed(results),
                           confidence_score |-> CalculateConfidenceScore(results),
                           recommendations |-> GenerateRecommendations(results)]]

\* ValidationSystem._save_validation_to_suna
SaveValidationToSuna(verdict) ==
    IF supabase_client = "ok"
    THEN Append(validation_results,
                [id |-> verdict.validation_id,
                 agent_id |-> verdict.agent_id,
                 overall_passed |-> verdict.overall_passed,
                 confidence_score |-> verdict.confidence_score])
    ELSE validation_results

NoCall == [agent |-> "none", raised |-> FALSE, pending |-> FALSE]

\* Faulty variant: the cache keeps the first verdict of an agent.
DoValidateImprovement_CachesFirst(agent, data) ==
    \E r \in {ValidateImprovementResult(agent, data, next_uuid)} :
        /\ next_uuid' = next_uuid + 1
        /\ validation_history' =
               IF r.raised THEN validation_history
               ELSE Append(validation_history, r.verdict)
        /\ validation_cache' =
               IF r.raised \/ validation_cache[agent] # None THEN validation_cache
               ELSE [validation_cache EXCEPT ![agent] = r.verdict]
        /\ validation_results' =
               IF r.raised THEN validation_results
               ELSE SaveValidationToSuna(r.verdict)
        /\ call' = [agent |-> agent, data |-> data, raised |-> r.raised,
                    pending |-> FALSE, order |-> r.order, result |-> r.verdict,
                    validation_id |-> next_uuid]

\* ValidationSystem.validate_improvement: the whole call
DoValidateImprovement(agent, data) ==
    \E r \in {ValidateImprovementResult(agent, data, next_uuid)} :
        /\ next_uuid' = next_uuid + 1
        /\ validation_history' =
               IF r.raised THEN validation_history
               ELSE Append(validation_history, r.verdict)
        /\ validation_cache' =
               IF r.raised THEN validation_cache
               ELSE [validation_cache EXCEPT ![agent] = r.verdict]
        /\ validation_results' =
               IF r.raised THEN validation_results
               ELSE SaveValidationToSuna(r.verdict)
        /\ call' = [agent |-> agent, data |-> data, raised |-> r.raised,
                    pending |-> FALSE, order |-> r.order, result |-> r.verdict,
                    validation_id |-> next_uuid]

----------------------------------------------------------------------------
(* Inputs and store contents the checks draw from *)

StartDay == HistoryDays + 10

\* Rows of 'performance_metrics': a sample older than every window, an
\* improvement record without current_value inside the 30-day windows only,
\* and three kinds of recent rows.
RowKinds ==
    { [agent_id |-> "a1", current_value |-> Num(69), improvement_percentage |-> None,
       timestamp |-> 0],
      [agent_id |-> "a1", current_value |-> None, improvement_percentage |-> Num(100),
       timestamp |-> StartDay - 10],
      [agent_id |-> "a1", current_value |-> Num(69), improvement_percentage |-> None,
       timestamp |-> StartDay - 1],
      [agent_id |-> "a1", current_value |-> Num(71), improvement_percentage |-> None,
       timestamp |-> StartDay - 1],
      [agent_id |-> "a1", current_value |-> Num(71), improvement_percentage |-> Num(200),
       timestamp |-> StartDay - 1] }

\* The table holds its rows in the order they were inserted: by timestamp.
Tables ==
    { t \in UNION { [1..n -> RowKinds] : n \in 0..MaxRows } :
        \A i \in 1..(Len(t) - 1) : t[i].timestamp <= t[i + 1].timestamp }

OldInputs == {Missing, Num(0), Num(70), Num(150), NaN}
NewInputs == {Missing, Num(74), Num(75), Num(150), Str}
PctInputs == {Missing, Num(199), Num(200), Num(214), Num(-1001), Str}

Claims ==
    { [old_performance |-> o, new_performance |-> n, improvement_percentage |-> p] :
        o \in OldInputs, n \in NewInputs, p \in PctInputs }

\* A few claims and stores for the checks that follow several calls.
SmallClaims ==
    { [old_performance |-> Num(70), new_performance |-> Num(85),
       improvement_percentage |-> Num(214)],
      [old_performance |-> Num(70), new_performance |-> Num(74),
       improvement_percentage |-> Num(199)],
      [old_performance |-> Num(150), new_performance |-> Num(85),
       improvement_percentage |-> Num(214)],
      [old_performance |-> Num(70), new_performance |-> Num(85),
       improvement_percentage |-> Str] }

SmallTables ==
    { t \in Tables :
        \/ t = <<>>
        \/ /\ Len(t) = MaxRows
           /\ \A i \in 1..Len(t) :
                  t[i].timestamp = StartDay - 1 /\ t[i].improvement_percentage = None
           /\ \A i \in 1..(Len(t) - 1) :
                  t[i].current_value.v <= t[i + 1].current_value.v }

----------------------------------------------------------------------------
(* Initial states *)

InitStore(tables) ==
    /\ now = StartDay
    /\ supabase_client \in {"ok", "none", "failing"}
    /\ performance_metrics \in tables
    /\ supabase_client # "ok" => performance_metrics = <<>>
    /\ agents_table = <<>>
    /\ agent_interactions = <<>>
    /\ security_logs = <<>>

\* ValidationSystem.__init__
InitValidationSystem ==
    /\ validation_history = <<>>
    /\ validation_cache = [a \in Agents |-> None]
    /\ validation_results = <<>>
    /\ next_uuid = 1

NoAnalysis == [none |-> TRUE]
NoRead == [op |-> "none"]

\* MetricsSystem.__init__
InitMetricsSystem ==
    /\ metrics_history = <<>>
    /\ metrics_cache = [a \in Agents |-> None]
    /\ system_metrics = <<>>
    /\ metric_call = [id |-> 0]
    /\ last_analysis = NoAnalysis
    /\ read_call = NoRead
    /\ performance_seen = [a \in Agents |-> NoRead]

\* No evolution cycle has run yet.
NoCycle == [count |-> 0, low_factors |-> 0, improvements |-> 0,
            overall_success |-> FALSE, improvement_percentage |-> 0,
            outcome |-> "none"]

\* CoreAgent.__init__
InitCoreAgent ==
    /\ pc = "idle"
    /\ current_performance = 0
    /\ baseline_performance = 0
    /\ improvement_history = <<>>
    /\ cycle = NoCycle

NoIntegrationCall == [op |-> "none"]
NoCycleCall == [op |-> "none", count |-> 0]

\* SUNAAlshamIntegration.__init__ with the default configuration
InitIntegration ==
    /\ config = [max_concurrent_evolutions |-> 3, auto_start |-> TRUE]
    /\ is_running = FALSE
    /\ db_connection = FALSE
    /\ agents = <<>>
    /\ evolution_cycles = <<>>
    /\ loop_tasks = <<>>
    /\ integration_call = NoIntegrationCall
    /\ cycle_call = NoCycleCall

\* No task has been created.
TaskIds == {"t1", "t2"}
NoTasks == [t \in TaskIds |-> [pc |-> "none"]]

\* One validate_improvement call on a fresh system, for every claim and store.
InitVerdict ==
    /\ InitStore(Tables)
    /\ InitValidationSystem
    /\ InitMetricsSystem
    /\ InitCoreAgent
    /\ InitIntegration
    /\ tasks = NoTasks
    /\ call \in { [agent |-> a, data |-> d, raised |-> FALSE, pending |-> TRUE] :
                    a \in Agents, d \in Claims }
    /\ call.agent # "a1" => performance_metrics \in SmallTables

ValidatePending ==
    /\ call.pending
    /\ DoValidateImprovement(call.agent, call.data)
    /\ UNCHANGED <<now, supabase_client, performance_metrics, metricsVars,
                   integrationVars, tasks, coreVars>>

NextVerdict == ValidatePending

SpecVerdict == InitVerdict /\ [][NextVerdict]_vars

\* A sequence of validate_improvement calls.
InitValidation ==
    /\ InitStore(SmallTables)
    /\ InitValidationSystem
    /\ InitMetricsSystem
    /\ InitCoreAgent
    /\ InitIntegration
    /\ tasks = NoTasks
    /\ call = NoCall

ValidateImprovement ==
    /\ next_uuid <= MaxValidations
    /\ \E agent \in Agents, data \in SmallClaims : DoValidateImprovement(agent, data)
    /\ UNCHANGED <<now, supabase_client, performance_metrics, metricsVars,
                   integrationVars, tasks, coreVars>>

NextValidation == ValidateImprovement

SpecValidation == InitValidation /\ [][NextValidation]_vars

----------------------------------------------------------------------------
(* MetricsSystem *)

metrics_retention_days == 30

MetricTypes == {"evolution_cycle", "accuracy"}

\* value: float ; a finite number or NaN
MetricValues == {Num(75), NaN}

\* The clock moves on between calls; the days it visits lie one day and one
\* retention period (and a day more) after the start.
ClockDays == {StartDay + 1, StartDay + metrics_retention_days,
              StartDay + metrics_retention_days + 1}

\* Faulty variant: every record carries the same id.
MetricData_SameId(agent, metric_type, value) ==
    [id |-> 0, agent_id |-> agent, metric_type |-> metric_type,
     value |-> value, timestamp |-> now]

\* metric_data of collect_performance_metric: a fresh uuid and the time of
\* the call
MetricData(agent, metric_type, value) ==
    [id |-> next_uuid, agent_id |-> agent, metric_type |-> metric_type,
     value |-> value, timestamp |-> now]

\* MetricsSystem.collect_performance_metric: the record is appended to the
\* local history, then inserted into 'system_metrics' when a client is there.
\* An insert that raises is caught and the call returns False; the local
\* record stays.  The value is stored as it is given.
DoCollectPerformanceMetric(agent, metric_type, value) ==
    LET metric_data == MetricData(agent, metric_type, value)
    IN  /\ next_uuid' = next_uuid + 1
        /\ metrics_history' = Append(metrics_history, metric_data)
        /\ system_metrics' = IF supabase_client = "ok"
                             THEN Append(system_metrics, metric_data)
                             ELSE system_metrics
        /\ metric_call' = [id |-> next_uuid, agent_id |-> agent,
                           metric_type |-> metric_type, value |-> value,
                           returned |-> supabase_client # "failing"]

(* MetricsSystem: collections and health analysis.  A mean is held as an   *)
(* exact fraction in lowest terms; a standard deviation is held by its     *)
(* square, the sample variance.                                            *)

RECURSIVE Gcd(_, _)
Gcd(a, b) == IF b = 0 THEN a ELSE Gcd(b, a % b)

Frac(n, d) ==
    LET g == Gcd(Abs(n), d)
    IN  [n |-> n \div g, d |-> d \div g]

FracAdd(a, b) == Frac(a.n * b.d + b.n * a.d, a.d * b.d)
FracTimes(k, a) == Frac(k * a.n, a.d)
FracOver(a, k) == Frac(a.n, a.d * k)
FracGe(a, b) == a.n * b.d >= b.n * a.d
FracLt(a, b) == a.n * b.d < b.n * a.d

RECURSIVE FracSum(_)
FracSum(s) == IF s = <<>> THEN Frac(0, 1) ELSE FracAdd(Head(s), FracSum(Tail(s)))

\* statistics.mean of a non-empty list of numbers, of fractions
Mean(s) == Frac(SumSeq(s), Len(s))
FracMean(s) == FracOver(FracSum(s), Len(s))

\* statistics.stdev squared
Variance(s) == Frac(VarNum(s), Len(s) * (Len(s) - 1))

RECURSIVE MaxSeq(_)
MaxSeq(s) == IF Len(s) = 1 THEN s[1]
             ELSE IF s[1] >= MaxSeq(Tail(s)) THEN s[1] ELSE MaxSeq(Tail(s))

RECURSIVE MinSeq(_)
MinSeq(s) == IF Len(s) = 1 THEN s[1]
             ELSE IF s[1] <= MinSeq(Tail(s)) THEN s[1] ELSE MinSeq(Tail(s))

HoursPerDay == 24
analysis_window_hours == 24
PerformanceWindowHours == 1

\* start_time <= timestamp <= end_time for end_time = now and
\* start_time = now - time_window_hours
InWindow(timestamp, time_window_hours) ==
    /\ timestamp * HoursPerDay >= now * HoursPerDay - time_window_hours
    /\ timestamp <= now

\* The values of field f that are not None, in table order
Values(rows, f) == MapField(SelectSeq(rows, LAMBDA r : r[f].kind # "none"), f)

ErrorDict == [error |-> "db"]
EmptyDict == [empty |-> TRUE]

\* MetricsSystem._collect_performance_metrics
CollectPerformanceMetrics(agent, time_window_hours) ==
    IF supabase_client = "failing" THEN ErrorDict
    ELSE
    LET rows == SelectSeq(performance_metrics,
                          LAMBDA r : r.agent_id = agent
                                     /\ InWindow(r.timestamp, time_window_hours))
        performance_values == Values(rows, "current_value")
        improvement_values == Values(rows, "improvement_percentage")
        some == performance_values # <<>>
    IN  IF rows = <<>>
        THEN [metrics_count |-> 0, average_performance |-> Frac(0, 1)]
        ELSE [metrics_count |-> Len(rows),
              average_performance |-> IF some THEN Mean(performance_values)
                                      ELSE Frac(0, 1),
              max_performance |-> IF some THEN MaxSeq(performance_values) ELSE 0,
              min_performance |-> IF some THEN MinSeq(performance_values) ELSE 0,
              performance_variance |-> IF Len(performance_values) > 1
                                       THEN Variance(performance_values)
                                       ELSE Frac(0, 1),
              average_improvement |-> IF improvement_values # <<>>
                                      THEN Mean(improvement_values)
                                      ELSE Frac(0, 1),
              total_improvements |->
                  Len(SelectSeq(improvement_values, LAMBDA v : v > 0)),
              last_performance |-> IF some
                                   THEN performance_values[Len(performance_values)]
                                   ELSE 0]

\* MetricsSystem._collect_interaction_metrics (synergy in percent)
CollectInteractionMetrics(agent, time_window_hours) ==
    IF supabase_client = "failing" THEN ErrorDict
    ELSE
    LET rows == SelectSeq(agent_interactions,
                          LAMBDA r : r.initiator_agent_id = agent
                                     /\ InWindow(r.timestamp, time_window_hours))
        synergy_values == Values(rows, "synergy_score")
        some == synergy_values # <<>>
    IN  IF rows = <<>>
        THEN [interactions_count |-> 0, average_synergy |-> Frac(0, 1)]
        ELSE [interactions_count |-> Len(rows),
              average_synergy |-> IF some THEN Mean(synergy_values) ELSE Frac(0, 1),
              max_synergy |-> IF some THEN MaxSeq(synergy_values) ELSE 0,
              min_synergy |-> IF some THEN MinSeq(synergy_values) ELSE 0,
              average_duration |->
                  IF Values(rows, "duration_seconds") # <<>>
                  THEN Mean(Values(rows, "duration_seconds")) ELSE Frac(0, 1),
              successful_interactions |->
                  Len(SelectSeq(synergy_values, LAMBDA v : v >= 30)),
              last_synergy |-> IF some THEN synergy_values[Len(synergy_values)]
                               ELSE 0]

\* MetricsSystem._collect_security_metrics (scores in hundredths; 1.0 when
\* there is none)
CollectSecurityMetrics(agent, time_window_hours) ==
    IF supabase_client = "failing" THEN ErrorDict
    ELSE
    LET rows == SelectSeq(security_logs,
                          LAMBDA r : r.agent_id = agent
                                     /\ InWindow(r.timestamp, time_window_hours))
        security_scores == Values(rows, "security_score")
        some == security_scores # <<>>
    IN  IF rows = <<>>
        THEN [security_events |-> 0, average_security_score |-> Frac(100, 1)]
        ELSE [security_events |-> Len(rows),
              average_security_score |-> IF some THEN Mean(security_scores)
                                         ELSE Frac(100, 1),
              min_security_score |-> IF some THEN MinSeq(security_scores) ELSE 100,
              total_threats_detected |-> SumSeq(Values(rows, "threats_detected")),
              total_containment_actions |->
                  SumSeq(Values(rows, "containment_actions")),
              security_incidents |->
                  Len(SelectSeq(security_scores, LAMBDA v : v < 70)),
              last_security_score |-> IF some
                                      THEN security_scores[Len(security_scores)]
                                      ELSE 100]

\* MetricsSystem.collect_agent_metrics: what it returns; {} without a client
CollectAgentMetricsResult(agent, time_window_hours) ==
    IF supabase_client = "none" THEN EmptyDict
    ELSE [agent_id |-> agent,
          collection_timestamp |-> now,
          time_window_hours |-> time_window_hours,
          performance |-> CollectPerformanceMetrics(agent, time_window_hours),
          interactions |-> CollectInteractionMetrics(agent, time_window_hours),
          security |-> CollectSecurityMetrics(agent, time_window_hours)]

\* d.get(key, {}) of a dict held as a record
GetDict(d, key) == IF key \in DOMAIN d THEN d[key] ELSE EmptyDict

\* d.get(key) is truthy: the key is there and its mean is not 0
TruthyMean(d, key) == key \in DOMAIN d /\ d[key].n # 0

\* The means of one section over the agents whose mean is truthy
RECURSIVE SectionScores(_, _, _)
SectionScores(collected, section, key) ==
    IF collected = <<>> THEN <<>>
    ELSE LET d == GetDict(Head(collected).metrics, section)
             rest == SectionScores(Tail(collected), section, key)
         IN  IF TruthyMean(d, key) THEN <<d[key]>> \o rest ELSE rest

\* health_score = avg_performance * 0.4 + avg_security * 0.4
\*                + avg_collaboration * 0.2, in hundredths
HealthScore(avg_performance, avg_security, avg_collaboration) ==
    FracOver(FracAdd(FracTimes(4, avg_performance),
                     FracAdd(FracTimes(4, avg_security),
                             FracTimes(2, avg_collaboration))), 10)

\* MetricsSystem._analyze_health_indicators ; average_synergy / 100.0 in
\* hundredths is the synergy in percent
AnalyzeHealthIndicators(collected) ==
    LET performance_scores == SectionScores(collected, "performance",
                                            "average_performance")
        security_scores == SectionScores(collected, "security",
                                         "average_security_score")
        collaboration_scores == SectionScores(collected, "interactions",
                                              "average_synergy")
        avg_performance == IF performance_scores # <<>>
                           THEN FracMean(performance_scores) ELSE Frac(0, 1)
        avg_security == IF security_scores # <<>>
                        THEN FracMean(security_scores) ELSE Frac(100, 1)
        avg_collaboration == IF collaboration_scores # <<>>
                             THEN FracMean(collaboration_scores) ELSE Frac(0, 1)
        health_score == HealthScore(avg_performance, avg_security,
                                    avg_collaboration)
    IN  [overall_health |-> IF FracGe(health_score, Frac(80, 1)) THEN "EXCELLENT"
                            ELSE IF FracGe(health_score, Frac(60, 1)) THEN "GOOD"
                            ELSE IF FracGe(health_score, Frac(40, 1)) THEN "FAIR"
                            ELSE "POOR",
         health_score |-> health_score,
         average_performance |-> avg_performance,
         average_security |-> avg_security,
         average_collaboration |-> avg_collaboration,
         agents_with_metrics |-> Len(performance_scores)]

\* alert_thresholds: performance 0.2, security 0.7, synergy 0.3 * 100 percent
performance_drop == 20
security_score == 70
collaboration_synergy == 30

\* d.get(key, default) of a summary field held as a number
GetNumber(d, key, default) == IF key \in DOMAIN d THEN d[key] ELSE default

\* The alerts _generate_alerts raises for one agent.  Every alert formats
\* the field it compared with d[key]: when the key is absent and the
\* default is below the threshold, the lookup raises KeyError.
AlertRaises(metrics) ==
    LET perf  == GetDict(metrics, "performance")
        sec   == GetDict(metrics, "security")
        inter == GetDict(metrics, "interactions")
    IN  \/ ("last_performance" \notin DOMAIN perf /\ 100 < performance_drop)
        \/ ("last_security_score" \notin DOMAIN sec /\ 100 < security_score)
        \/ ("last_synergy" \notin DOMAIN inter /\ 0 < collaboration_synergy)

AgentAlerts(agent, metrics) ==
    LET perf  == GetDict(metrics, "performance")
        sec   == GetDict(metrics, "security")
        inter == GetDict(metrics, "interactions")
    IN  (IF GetNumber(perf, "last_performance", 100) < performance_drop
         THEN <<[type |-> "PERFORMANCE_LOW", severity |-> "HIGH",
                 agent_id |-> agent]>> ELSE <<>>)
        \o (IF GetNumber(sec, "last_security_score", 100) < security_score
            THEN <<[type |-> "SECURITY_RISK", severity |-> "CRITICAL",
                    agent_id |-> agent]>> ELSE <<>>)
        \o (IF GetNumber(inter, "last_synergy", 0) < collaboration_synergy
            THEN <<[type |-> "COLLABORATION_LOW", severity |-> "MEDIUM",
                    agent_id |-> agent]>> ELSE <<>>)

\* MetricsSystem._generate_alerts
RECURSIVE GenerateAlerts(_)
GenerateAlerts(collected) ==
    IF collected = <<>> THEN <<>>
    ELSE AgentAlerts(Head(collected).id, Head(collected).metrics)
             \o GenerateAlerts(Tail(collected))

AlertsRaise(collected) ==
    \E i \in 1..Len(collected) : AlertRaises(collected[i].metrics)

\* The active agents of table 'agents', in table order
ActiveAgents == SelectSeq(agents_table, LAMBDA r : r.status = "active")

\* collect_agent_metrics for every active agent, in table order; a later row
\* of an id takes the place of the earlier one (a dict keeps a key's place)
RECURSIVE CollectAll(_)
CollectAll(rows) ==
    IF rows = <<>> THEN <<>>
    ELSE LET r == rows[Len(rows)]
             before == CollectAll(SubSeq(rows, 1, Len(rows) - 1))
             entry == [id |-> r.id, name |-> r.name, type |-> r.type,
                       metrics |-> CollectAgentMetricsResult(r.id,
                                                             analysis_window_hours)]
         IN  IF \E i \in 1..Len(before) : before[i].id = r.id
             THEN [i \in 1..Len(before) |->
                      IF before[i].id = r.id THEN entry ELSE before[i]]
             ELSE Append(before, entry)

\* The cache after collect_agent_metrics ran for each of the agents
RECURSIVE CacheAfter(_, _)
CacheAfter(cache, collected) ==
    IF collected = <<>> THEN cache
    ELSE CacheAfter([cache EXCEPT ![Head(collected).id] = Head(collected).metrics],
                    Tail(collected))

\* MetricsSystem.analyze_system_health: what it returns, whether it stored
\* the analysis, and the cache it leaves
AnalyzeSystemHealthResult ==
    IF supabase_client = "none"
    THEN [stored |-> FALSE, cache |-> metrics_cache,
          result |-> [system_health |-> "UNKNOWN", reason |-> "no client"]]
    ELSE IF supabase_client = "failing"
    THEN [stored |-> FALSE, cache |-> metrics_cache,
          result |-> [system_health |-> "ERROR", error |-> "db",
                      timestamp |-> now]]
    ELSE IF ActiveAgents = <<>>
    THEN [stored |-> FALSE, cache |-> metrics_cache,
          result |-> [system_health |-> "UNKNOWN", reason |-> "no active agent"]]
    ELSE LET collected == CollectAll(ActiveAgents)
             health_analysis == AnalyzeHealthIndicators(collected)
         IN  IF AlertsRaise(collected)
             THEN [stored |-> FALSE, cache |-> CacheAfter(metrics_cache, collected),
                   result |-> [system_health |-> "ERROR", error |-> "KeyError",
                               timestamp |-> now]]
             ELSE [stored |-> TRUE, cache |-> CacheAfter(metrics_cache, collected),
                   result |-> [analysis_timestamp |-> now,
                               system_health |-> health_analysis.overall_health,
                               agents_analyzed |-> Len(collected),
                               health_indicators |-> health_analysis,
                               alerts |-> GenerateAlerts(collected),
                               system_metrics |-> collected]]

\* MetricsSystem._analysis_is_stale: older than one hour
AnalysisIsStale(analysis) ==
    now * HoursPerDay - analysis.analysis_timestamp * HoursPerDay > 1

ReportFormats == {"summary", "detailed", "xml"}

\* _generate_summary_report, _generate_detailed_report
Report(analysis, format_type) ==
    IF format_type \notin {"summary", "detailed"}
    THEN [error |-> "unsupported format"]
    ELSE IF analysis = NoAnalysis
    THEN [error |-> "no analysis"]
    ELSE IF format_type = "detailed"
    THEN [report_type |-> "detailed", generated_at |-> now,
          full_analysis |-> analysis]
    ELSE [report_type |-> "summary", generated_at |-> now,
          system_health |-> analysis.health_indicators.overall_health,
          health_score |-> analysis.health_indicators.health_score,
          agents_monitored |-> analysis.health_indicators.agents_with_metrics,
          active_alerts |-> Len(analysis.alerts),
          critical_alerts |->
              Len(SelectSeq(analysis.alerts, LAMBDA a : a.severity = "CRITICAL")),
          performance_avg |-> analysis.health_indicators.average_performance,
          security_avg |-> analysis.health_indicators.average_security,
          collaboration_avg |-> analysis.health_indicators.average_collaboration]

MinutesPerHour == 60
CacheMinutes == 5

\* The cache entry of the agent is there and younger than five minutes
CacheIsRecent(agent) ==
    /\ metrics_cache[agent] # None
    /\ (now - metrics_cache[agent].collection_timestamp)
           * HoursPerDay * MinutesPerHour < CacheMinutes

\* MetricsSystem.get_performance_metrics: what it returns
GetPerformanceMetricsResult(agent) ==
    IF CacheIsRecent(agent)
    THEN GetDict(metrics_cache[agent], "performance")
    ELSE GetDict(CollectAgentMetricsResult(agent, PerformanceWindowHours),
                 "performance")


\* Faulty variant: the summary that was read is also stored as a sample.
DoGetPerformanceMetrics_RecordsSample(agent) ==
    \E output \in {GetPerformanceMetricsResult(agent)} :
        /\ metrics_cache' = metrics_cache
        /\ read_call' = [op |-> "get_performance_metrics", agent_id |-> agent,
                         output |-> output]
        /\ performance_seen' = [performance_seen EXCEPT ![agent] = output]
        /\ metrics_history' = Append(metrics_history,
                                     [id |-> 0, agent_id |-> agent,
                                      metric_type |-> "accuracy",
                                      value |-> Num(0), timestamp |-> now])
        /\ system_metrics' = system_metrics

\* MetricsSystem.get_performance_metrics: a recent cache entry is served as
\* it is; otherwise collect_agent_metrics runs over the last hour and, with
\* a client, caches what it collected.
DoGetPerformanceMetrics(agent) ==
    \E output \in {GetPerformanceMetricsResult(agent)} :
        /\ metrics_cache' =
               IF CacheIsRecent(agent) \/ supabase_client = "none"
               THEN metrics_cache
               ELSE [metrics_cache EXCEPT ![agent] =
                         CollectAgentMetricsResult(agent, PerformanceWindowHours)]
        /\ read_call' = [op |-> "get_performance_metrics", agent_id |-> agent,
                         output |-> output]
        /\ performance_seen' = [performance_seen EXCEPT ![agent] = output]
        /\ UNCHANGED <<metrics_history, system_metrics>>

\* MetricsSystem.collect_agent_metrics
DoCollectAgentMetrics(agent, time_window_hours) ==
    \E output \in {CollectAgentMetricsResult(agent, time_window_hours)} :
        /\ metrics_cache' = IF supabase_client = "none" THEN metrics_cache
                            ELSE [metrics_cache EXCEPT ![agent] = output]
        /\ read_call' = [op |-> "collect_agent_metrics", agent_id |-> agent,
                         output |-> output]

\* MetricsSystem.analyze_system_health
DoAnalyzeSystemHealth ==
    \E r \in {AnalyzeSystemHealthResult} :
        /\ metrics_cache' = r.cache
        /\ last_analysis' = IF r.stored THEN r.result ELSE last_analysis
        /\ read_call' = [op |-> "analyze_system_health", agent_id |-> "all",
                         output |-> r.result]

\* MetricsSystem.generate_report: the analysis runs first when there is none
\* or the last one is stale
DoGenerateReport(format_type) ==
    IF last_analysis = NoAnalysis \/ AnalysisIsStale(last_analysis)
    THEN \E r \in {AnalyzeSystemHealthResult} :
             /\ metrics_cache' = r.cache
             /\ last_analysis' = IF r.stored THEN r.result ELSE last_analysis
             /\ read_call' = [op |-> "generate_report", agent_id |-> "all",
                              output |-> Report(last_analysis', format_type)]
    ELSE /\ UNCHANGED <<metrics_cache, last_analysis>>
         /\ read_call' = [op |-> "generate_report", agent_id |-> "all",
                          output |-> Report(last_analysis, format_type)]


InitMetrics ==
    /\ InitStore({<<>>})
    /\ InitValidationSystem
    /\ InitMetricsSystem
    /\ InitCoreAgent
    /\ InitIntegration
    /\ tasks = NoTasks
    /\ call = NoCall

CollectPerformanceMetric ==
    /\ Len(metrics_history) < MaxRecords
    /\ \E agent \in Agents, metric_type \in MetricTypes :
           \E value \in MetricValues :
               DoCollectPerformanceMetric(agent, metric_type, value)
    /\ UNCHANGED <<now, supabase_client, performance_metrics, validationVars,
                   metrics_cache, healthTables, integrationVars, tasks,
                   last_analysis, readVars, coreVars>>

GetPerformanceMetrics ==
    /\ \E agent \in Agents : DoGetPerformanceMetrics(agent)
    /\ UNCHANGED <<now, supabase_client, performance_metrics, validationVars,
                   next_uuid, metric_call, healthTables, integrationVars,
                   tasks, last_analysis, coreVars>>

Tick ==
    /\ \E d \in ClockDays : d > now /\ now' = d
    /\ UNCHANGED <<supabase_client, performance_metrics, validationVars,
                   next_uuid, metricsVars, integrationVars, tasks, coreVars>>

NextMetrics == CollectPerformanceMetric \/ GetPerformanceMetrics \/ Tick

SpecMetrics == InitMetrics /\ [][NextMetrics]_vars

----------------------------------------------------------------------------
(* The read operations of MetricsSystem over stores of every shape *)

\* Rows of 'performance_metrics' of the last day and of this moment; a value
\* may be missing, or lie above 1.0.
HealthRowKinds ==
    { [agent_id |-> "a1", current_value |-> v, improvement_percentage |-> None,
       timestamp |-> t] : v \in {Num(69), Num(150), None},
                          t \in {StartDay - 1, StartDay} }
    \cup { [agent_id |-> "a2", current_value |-> Num(69),
            improvement_percentage |-> Num(200), timestamp |-> StartDay] }

\* A series that declines: one sample of 0.90 a day ago, five of 0.60 now.
DecliningSeries ==
    [i \in 1..6 |->
        [agent_id |-> "a1", current_value |-> IF i = 1 THEN Num(90) ELSE Num(60),
         improvement_percentage |-> None,
         timestamp |-> IF i = 1 THEN StartDay - 1 ELSE StartDay]]

HealthTables ==
    { t \in UNION { [1..n -> HealthRowKinds] : n \in 0..MaxHealthRows } :
        \A i \in 1..(Len(t) - 1) : t[i].timestamp <= t[i + 1].timestamp }
    \cup {DecliningSeries}

AgentRow(id, status) ==
    [id |-> id, name |-> id, type |-> "self_improving", status |-> status]

AgentsTables ==
    { <<>>, <<AgentRow("a1", "inactive")>>, <<AgentRow("a1", "active")>>,
      <<AgentRow("a1", "active"), AgentRow("a2", "active")>> }

InteractionRow(agent, synergy) ==
    [initiator_agent_id |-> agent, synergy_score |-> synergy,
     duration_seconds |-> Num(10), timestamp |-> StartDay]

InteractionTables ==
    { <<>>, <<InteractionRow("a1", None)>>, <<InteractionRow("a1", Num(50))>>,
      <<InteractionRow("a1", Num(50)), InteractionRow("a2", Num(250))>> }

SecurityRow(agent, score) ==
    [agent_id |-> agent, security_score |-> score, threats_detected |-> Num(1),
     containment_actions |-> Num(1), timestamp |-> StartDay]

SecurityTables ==
    { <<>>, <<SecurityRow("a1", Num(50))>>,
      <<SecurityRow("a1", Num(90)), SecurityRow("a2", Num(90))>> }

PendingReads ==
    { [op |-> "pending", request |-> "get_performance_metrics", agent_id |-> a] :
          a \in Agents }
    \cup { [op |-> "pending", request |-> "collect_agent_metrics", agent_id |-> a,
            time_window_hours |-> h] :
              a \in Agents, h \in {PerformanceWindowHours, analysis_window_hours} }
    \cup { [op |-> "pending", request |-> "analyze_system_health"] }
    \cup { [op |-> "pending", request |-> "generate_report", format_type |-> f] :
              f \in ReportFormats }

\* One read on a fresh MetricsSystem, for every store.
InitHealth ==
    /\ now = StartDay
    /\ supabase_client \in {"ok", "none", "failing"}
    /\ performance_metrics \in HealthTables
    /\ agents_table \in AgentsTables
    /\ agent_interactions \in InteractionTables
    /\ security_logs \in SecurityTables
    /\ supabase_client # "ok" =>
           /\ performance_metrics = <<>>
           /\ agents_table = <<>>
           /\ agent_interactions = <<>>
           /\ security_logs = <<>>
    /\ InitValidationSystem
    /\ metrics_history = <<>>
    /\ metrics_cache = [a \in Agents |-> None]
    /\ system_metrics = <<>>
    /\ metric_call = [id |-> 0]
    /\ last_analysis = NoAnalysis
    /\ read_call \in PendingReads
    /\ performance_seen = [a \in Agents |-> NoRead]
    /\ InitCoreAgent
    /\ InitIntegration
    /\ tasks = NoTasks
    /\ call = NoCall

\* The pending read takes place.
ReadGetPerformanceMetrics ==
    /\ read_call.op = "pending"
    /\ read_call.request = "get_performance_metrics"
    /\ DoGetPerformanceMetrics(read_call.agent_id)
    /\ UNCHANGED <<now, supabase_client, performance_metrics, validationVars,
                   next_uuid, metric_call, healthTables, integrationVars,
                   tasks, last_analysis, coreVars>>

ReadCollectAgentMetrics ==
    /\ read_call.op = "pending"
    /\ read_call.request = "collect_agent_metrics"
    /\ DoCollectAgentMetrics(read_call.agent_id, read_call.time_window_hours)
    /\ UNCHANGED <<now, supabase_client, performance_metrics, validationVars,
                   next_uuid, metrics_history, system_metrics, metric_call,
                   healthTables, integrationVars, tasks, last_analysis,
                   performance_seen, coreVars>>

ReadAnalyzeSystemHealth ==
    /\ read_call.op = "pending"
    /\ read_call.request = "analyze_system_health"
    /\ DoAnalyzeSystemHealth
    /\ UNCHANGED <<now, supabase_client, performance_metrics, validationVars,
                   next_uuid, metrics_history, system_metrics, metric_call,
                   healthTables, integrationVars, tasks, performance_seen,
                   coreVars>>

ReadGenerateReport ==
    /\ read_call.op = "pending"
    /\ read_call.request = "generate_report"
    /\ DoGenerateReport(read_call.format_type)
    /\ UNCHANGED <<now, supabase_client, performance_metrics, validationVars,
                   next_uuid, metrics_history, system_metrics, metric_call,
                   healthTables, integrationVars, tasks, performance_seen,
                   coreVars>>

NextHealth ==
    \/ ReadGetPerformanceMetrics
    \/ ReadCollectAgentMetrics
    \/ ReadAnalyzeSystemHealth
    \/ ReadGenerateReport

SpecHealth == InitHealth /\ [][NextHealth]_vars

\* Sequences of reads, recordings and validations over a few stores
ReadsTables ==
    { t \in HealthTables :
        \A i \in 1..Len(t) : /\ t[i].agent_id = "a1"
                              /\ t[i].current_value # None
                              /\ t[i].timestamp = StartDay - (Len(t) - i) }

InitReads ==
    /\ now = StartDay
    /\ supabase_client \in {"ok", "none", "failing"}
    /\ performance_metrics \in ReadsTables
    /\ agents_table = <<AgentRow("a1", "active")>>
    /\ agent_interactions = <<InteractionRow("a1", Num(50))>>
    /\ security_logs = <<>>
    /\ supabase_client # "ok" =>
           /\ performance_metrics = <<>>
           /\ agents_table = <<>>
           /\ agent_interactions = <<>>
    /\ InitValidationSystem
    /\ InitMetricsSystem
    /\ InitCoreAgent
    /\ InitIntegration
    /\ tasks = NoTasks
    /\ call = NoCall

CollectAgentMetrics ==
    /\ \E agent \in Agents,
          time_window_hours \in {PerformanceWindowHours, analysis_window_hours} :
           DoCollectAgentMetrics(agent, time_window_hours)
    /\ UNCHANGED <<now, supabase_client, performance_metrics, validationVars,
                   next_uuid, metrics_history, system_metrics, metric_call,
                   healthTables, integrationVars, tasks, last_analysis,
                   performance_seen, coreVars>>

AnalyzeSystemHealth ==
    /\ DoAnalyzeSystemHealth
    /\ UNCHANGED <<now, supabase_client, performance_metrics, validationVars,
                   next_uuid, metrics_history, system_metrics, metric_call,
                   healthTables, integrationVars, tasks, performance_seen,
                   coreVars>>

GenerateReport ==
    /\ \E format_type \in ReportFormats : DoGenerateReport(format_type)
    /\ UNCHANGED <<now, supabase_client, performance_metrics, validationVars,
                   next_uuid, metrics_history, system_metrics, metric_call,
                   healthTables, integrationVars, tasks, performance_seen,
                   coreVars>>

\* The clock moves on by a day, once.
TickDay ==
    /\ now = StartDay
    /\ now' = now + 1
    /\ UNCHANGED <<supabase_client, performance_metrics, validationVars,
                   next_uuid, metricsVars, integrationVars, tasks, coreVars>>

NextReads ==
    \/ GetPerformanceMetrics
    \/ CollectAgentMetrics
    \/ AnalyzeSystemHealth
    \/ GenerateReport
    \/ TickDay

SpecReads == InitReads /\ [][NextReads]_vars

\* One operation of MetricsSystem or ValidationSystem, on a system that has
\* recorded nothing yet or one sample.
RecordedBefore ==
    [id |-> 0, agent_id |-> "a1", metric_type |-> "accuracy", value |-> Num(75),
     timestamp |-> StartDay - 1]

PendingRecords ==
    { [id |-> 0, pending |-> TRUE, agent_id |-> a, metric_type |-> m,
       value |-> v] : a \in Agents, m \in MetricTypes, v \in MetricValues }

InitFrame ==
    /\ now = StartDay
    /\ supabase_client \in {"ok", "none", "failing"}
    /\ performance_metrics \in ReadsTables
    /\ agents_table = <<AgentRow("a1", "active")>>
    /\ agent_interactions = <<InteractionRow("a1", Num(50))>>
    /\ security_logs = <<>>
    /\ supabase_client # "ok" =>
           /\ performance_metrics = <<>>
           /\ agents_table = <<>>
           /\ agent_interactions = <<>>
    /\ InitValidationSystem
    /\ metrics_history \in {<<>>, <<RecordedBefore>>}
    /\ system_metrics = IF supabase_client = "ok" THEN metrics_history ELSE <<>>
    /\ metrics_cache = [a \in Agents |-> None]
    /\ last_analysis = NoAnalysis
    /\ performance_seen = [a \in Agents |-> NoRead]
    /\ InitCoreAgent
    /\ InitIntegration
    /\ tasks = NoTasks
    /\ \/ /\ read_call \in PendingReads
          /\ metric_call = [id |-> 0]
          /\ call = NoCall
       \/ /\ read_call = NoRead
          /\ metric_call \in PendingRecords
          /\ call = NoCall
       \/ /\ read_call = NoRead
          /\ metric_call = [id |-> 0]
          /\ call \in { [agent |-> a, data |-> d, raised |-> FALSE,
                          pending |-> TRUE] : a \in Agents, d \in SmallClaims }

RecordPending ==
    /\ "pending" \in DOMAIN metric_call
    /\ DoCollectPerformanceMetric(metric_call.agent_id, metric_call.metric_type,
                                  metric_call.value)
    /\ UNCHANGED <<now, supabase_client, performance_metrics, validationVars,
                   metrics_cache, healthTables, integrationVars, tasks,
                   last_analysis, readVars, coreVars>>

NextFrame ==
    \/ ReadGetPerformanceMetrics
    \/ ReadCollectAgentMetrics
    \/ ReadAnalyzeSystemHealth
    \/ ReadGenerateReport
    \/ RecordPending
    \/ ValidatePending

SpecFrame == InitFrame /\ [][NextFrame]_vars

----------------------------------------------------------------------------
(* CoreAgent.run_evolution_cycle *)

CoreAgentId == "a1"

min_improvement_threshold == 200

\* `await x` raises TypeError when x is not awaitable.  get_performance_metrics,
\* validate_improvement and collect_performance_metric are plain functions
\* that return a dict or a bool, so every await of their result raises, after
\* the call itself has run.
AwaitRaises == TRUE

\* analyze_performance falls back to factors drawn at random; their weighted
\* score lies between 0.485 and 1.1495.
Scores == {49, 80, 114}

\* validation_result.get("validated"): a verdict carries no such key.
Validated(validation_result) ==
    /\ "validated" \in DOMAIN validation_result
    /\ validation_result.validated

\* Faulty variant: the baseline is replaced whatever the verdict.
Accepted_Unvalidated(validation_result, improvement_percentage) ==
    TRUE

\* validate_improvements: the condition under which the baseline is replaced
Accepted(validation_result, improvement_percentage) ==
    /\ ~AwaitRaises
    /\ Validated(validation_result)
    /\ improvement_percentage >= min_improvement_threshold

\* Step 1: analyze_performance
AnalyzePerformance ==
    /\ pc = "idle"
    /\ cycle.count < MaxCycles
    /\ \E score \in Scores, low \in 0..MaxImprovements :
           /\ current_performance' = score
           /\ cycle' = [count |-> cycle.count + 1, low_factors |-> low,
                        improvements |-> 0, overall_success |-> FALSE,
                        improvement_percentage |-> 0, outcome |-> "running"]
    /\ DoGetPerformanceMetrics(CoreAgentId)
    /\ pc' = "generate"
    /\ UNCHANGED <<now, supabase_client, performance_metrics, validationVars,
                   next_uuid, metric_call, healthTables, integrationVars,
                   tasks, last_analysis, baseline_performance,
                   improvement_history>>

\* Step 2: generate_improvements, one improvement for every factor below 0.8;
\* the cycle ends here when there is none.
GenerateImprovements ==
    /\ pc = "generate"
    /\ cycle' = [cycle EXCEPT !.improvements = cycle.low_factors,
                              !.outcome = IF cycle.low_factors = 0
                                          THEN "no_improvement_needed"
                                          ELSE "running"]
    /\ pc' = IF cycle.low_factors = 0 THEN "idle" ELSE "implement"
    /\ UNCHANGED <<now, supabase_client, performance_metrics, validationVars,
                   next_uuid, metricsVars, integrationVars, tasks,
                   current_performance, baseline_performance,
                   improvement_history>>

\* Step 3: implement_improvements, each improvement succeeds or fails at random
ImplementImprovements ==
    /\ pc = "implement"
    /\ \E successful \in 0..cycle.improvements :
           cycle' = [cycle EXCEPT !.overall_success = successful > 0]
    /\ pc' = "validate"
    /\ UNCHANGED <<now, supabase_client, performance_metrics, validationVars,
                   next_uuid, metricsVars, integrationVars, tasks,
                   current_performance, baseline_performance,
                   improvement_history>>

\* Step 4: validate_improvements
ValidateImprovements ==
    /\ pc = "validate"
    /\ IF ~cycle.overall_success
       THEN /\ pc' = "save"
            /\ cycle' = [cycle EXCEPT !.improvement_percentage = 0]
            /\ UNCHANGED <<validationVars, next_uuid, metrics_cache,
                           metrics_history, system_metrics, readVars,
                           current_performance, baseline_performance,
                           improvement_history>>
       ELSE \E score \in Scores :
                LET improvement_percentage ==
                        IF baseline_performance > 0
                        THEN ((score - baseline_performance) * 1000)
                                 \div baseline_performance
                        ELSE 0
                    data == [old_performance |-> Missing,
                             new_performance |-> Missing,
                             baseline |-> Num(baseline_performance),
                             current |-> Num(score),
                             improvement_percentage |-> Num(improvement_percentage)]
                IN  /\ current_performance' = score
                    /\ DoGetPerformanceMetrics(CoreAgentId)
                    /\ DoValidateImprovement(CoreAgentId, data)
                    /\ baseline_performance' =
                           IF Accepted(call'.result, improvement_percentage)
                           THEN score ELSE baseline_performance
                    /\ improvement_history' =
                           IF Accepted(call'.result, improvement_percentage)
                           THEN Append(improvement_history,
                                       [timestamp |-> now,
                                        improvement_percentage |-> improvement_percentage,
                                        validated |-> TRUE])
                           ELSE improvement_history
                    /\ cycle' = [cycle EXCEPT
                                    !.improvement_percentage = improvement_percentage,
                                    !.outcome = IF AwaitRaises THEN "error"
                                                ELSE "running"]
                    /\ pc' = IF AwaitRaises THEN "idle" ELSE "save"
    /\ UNCHANGED <<now, supabase_client, performance_metrics, metric_call,
                   healthTables, integrationVars, tasks, last_analysis>>

\* Step 5: _save_cycle_metrics; the metric is collected before the await raises
SaveCycleMetrics ==
    /\ pc = "save"
    /\ DoCollectPerformanceMetric(CoreAgentId, "evolution_cycle",
                                  Num(cycle.improvement_percentage))
    /\ cycle' = [cycle EXCEPT !.outcome = "completed"]
    /\ pc' = "idle"
    /\ UNCHANGED <<now, supabase_client, performance_metrics, validationVars,
                   metrics_cache, healthTables, integrationVars, tasks,
                   last_analysis, readVars, current_performance,
                   baseline_performance, improvement_history>>

InitCore ==
    /\ InitStore(SmallTables)
    /\ InitValidationSystem
    /\ InitMetricsSystem
    /\ InitCoreAgent
    /\ InitIntegration
    /\ tasks = NoTasks
    /\ call = NoCall

NextCore ==
    \/ AnalyzePerformance
    \/ GenerateImprovements
    \/ ImplementImprovements
    \/ ValidateImprovements
    \/ SaveCycleMetrics

SpecCore == InitCore /\ [][NextCore]_vars

\* The cycles of the agent are run one after the other by whoever drives it:
\* a step that can be taken is taken.
SpecCoreLive == SpecCore /\ WF_vars(NextCore)

----------------------------------------------------------------------------
(* Tasks of the event loop that record metrics.  The program has no        *)
(* threads: concurrency is asyncio tasks (integration.py, create_task),    *)
(* which run one at a time and give way only at an await.                  *)
(* collect_performance_metric is a plain function with no await inside, so *)
(* a record is one uninterrupted step of the task that makes it.           *)

\* asyncio.create_task: the task is scheduled with the sample it will record
CreateTask(t) ==
    /\ tasks[t].pc = "none"
    /\ \E agent \in Agents, value \in MetricValues :
           tasks' = [tasks EXCEPT ![t] = [pc |-> "created", agent_id |-> agent,
                                          metric_type |-> "evolution_cycle",
                                          value |-> value]]
    /\ UNCHANGED <<now, supabase_client, performance_metrics, validationVars,
                   next_uuid, metricsVars, integrationVars, coreVars>>

\* The task runs its cycle up to the await that precedes the record.
TaskRuns(t) ==
    /\ tasks[t].pc = "created"
    /\ tasks' = [tasks EXCEPT ![t].pc = "saving"]
    /\ UNCHANGED <<now, supabase_client, performance_metrics, validationVars,
                   next_uuid, metricsVars, integrationVars, coreVars>>

\* Faulty variant: the task gives way between the append to the local
\* history and the insert into the table.
DoTaskRecord_GivesWayBeforeInsert(t) ==
    /\ next_uuid' = next_uuid + 1
    /\ metrics_history' = Append(metrics_history,
                                 MetricData(tasks[t].agent_id,
                                            tasks[t].metric_type, tasks[t].value))
    /\ system_metrics' = system_metrics
    /\ metric_call' = [id |-> next_uuid, agent_id |-> tasks[t].agent_id,
                       metric_type |-> tasks[t].metric_type,
                       value |-> tasks[t].value, returned |-> TRUE]
    /\ tasks' = [tasks EXCEPT ![t] = [pc |-> "done", id |-> next_uuid,
                                      agent_id |-> tasks[t].agent_id,
                                      metric_type |-> tasks[t].metric_type,
                                      value |-> tasks[t].value]]

\* _save_cycle_metrics: the task calls collect_performance_metric
DoTaskRecord(t) ==
    /\ DoCollectPerformanceMetric(tasks[t].agent_id, tasks[t].metric_type,
                                  tasks[t].value)
    /\ tasks' = [tasks EXCEPT ![t] = [pc |-> "done", id |-> next_uuid,
                                      agent_id |-> tasks[t].agent_id,
                                      metric_type |-> tasks[t].metric_type,
                                      value |-> tasks[t].value]]

TaskRecords(t) ==
    /\ tasks[t].pc = "saving"
    /\ DoTaskRecord(t)
    /\ UNCHANGED <<now, supabase_client, performance_metrics, validationVars,
                   metrics_cache, healthTables, last_analysis, readVars,
                   integrationVars, coreVars>>

\* The clock moves on while tasks are waiting.
TickTasks ==
    /\ \E d \in ClockDays : d > now /\ now' = d
    /\ UNCHANGED <<supabase_client, performance_metrics, validationVars,
                   next_uuid, metricsVars, integrationVars, tasks, coreVars>>

InitTasks ==
    /\ InitStore({<<>>})
    /\ InitValidationSystem
    /\ InitMetricsSystem
    /\ InitCoreAgent
    /\ InitIntegration
    /\ tasks = NoTasks
    /\ call = NoCall

NextTasks ==
    \/ \E t \in TaskIds : CreateTask(t)
    \/ \E t \in TaskIds : TaskRuns(t)
    \/ \E t \in TaskIds : TaskRecords(t)
    \/ TickTasks

SpecTasks == InitTasks /\ [][NextTasks]_vars

----------------------------------------------------------------------------
(* SUNAAlshamIntegration: start_system, stop_system and the evolution loop. *)
(* One caller issues start_system and stop_system, one call after the      *)
(* other; the loop task created by start_system runs between them.         *)

\* _initialize_agents: the agents dict, in insertion order
AgentNames == <<"core", "learn", "guard">>

\* self.evolution_cycles keeps the last 100 cycles
MaxStoredCycles == 100

\* The improvement data _validate_evolution_results builds from a CORE
\* result: the result carries none of the three fields, so each is 0.0.
ZeroImprovement ==
    [old_performance |-> Num(0), new_performance |-> Num(0),
     improvement_percentage |-> Num(0)]

\* A loop task between two cycles: at the test of its while, or asleep.
BetweenCycles == [pc |-> "between_cycles", cycle_id |-> 0, started_at |-> 0,
                  evolution_tasks |-> <<>>]

\* The caller is inside start_system, at its await.
Starting ==
    integration_call.op = "start_system" /\ integration_call.outcome = "pending"

\* start_system up to its await: an early return when already running,
\* otherwise is_running is set before anything else happens
StartSystemBegin ==
    /\ ~Starting
    /\ is_running \/ Len(loop_tasks) < MaxLoopTasks
    /\ IF is_running
       THEN /\ integration_call' = [op |-> "start_system",
                                   outcome |-> "already_running"]
            /\ UNCHANGED is_running
       ELSE /\ is_running' = TRUE
            /\ integration_call' = [op |-> "start_system", outcome |-> "pending"]
    /\ UNCHANGED <<now, supabase_client, performance_metrics, validationVars,
                   next_uuid, metricsVars, coreVars, tasks, config,
                   db_connection, agents, evolution_cycles, loop_tasks,
                   cycle_call>>

\* Faulty variant: the handler re-raises without resetting is_running.
DoStartSystemEnd_KeepsRunning(raises) ==
    /\ db_connection' = TRUE
    /\ agents' = IF db_connection THEN agents ELSE AgentNames
    /\ is_running' = is_running
    /\ loop_tasks' = IF ~raises /\ config.auto_start
                     THEN Append(loop_tasks, BetweenCycles) ELSE loop_tasks
    /\ integration_call' = [op |-> "start_system",
                            outcome |-> IF raises THEN "raised" ELSE "started"]

\* start_system from its await on: initialize_suna_integration (which
\* swallows its own exceptions) when there is no connection yet, then the
\* loop task when auto_start is set.  An exception inside the try block
\* resets is_running and is raised again.
DoStartSystemEnd(raises) ==
    /\ db_connection' = TRUE
    /\ agents' = IF db_connection THEN agents ELSE AgentNames
    /\ is_running' = IF raises THEN FALSE ELSE is_running
    /\ loop_tasks' = IF ~raises /\ config.auto_start
                     THEN Append(loop_tasks, BetweenCycles) ELSE loop_tasks
    /\ integration_call' = [op |-> "start_system",
                            outcome |-> IF raises THEN "raised" ELSE "started"]

StartSystemEnd ==
    /\ Starting
    /\ \E raises \in BOOLEAN : DoStartSystemEnd(raises)
    /\ UNCHANGED <<now, supabase_client, performance_metrics, validationVars,
                   next_uuid, metricsVars, coreVars, tasks, config,
                   evolution_cycles, cycle_call>>

\* stop_system: is_running is reset first; a failure of redis.set is logged
StopSystem ==
    /\ ~Starting
    /\ is_running' = FALSE
    /\ integration_call' = [op |-> "stop_system", outcome |-> "stopped"]
    /\ UNCHANGED <<now, supabase_client, performance_metrics, validationVars,
                   next_uuid, metricsVars, coreVars, tasks, config,
                   db_connection, agents, evolution_cycles, loop_tasks,
                   cycle_call>>

\* list(self.agents.items())[:self.max_concurrent_evolutions]
SelectedAgents ==
    SubSeq(agents, 1, IF config.max_concurrent_evolutions < Len(agents)
                      THEN config.max_concurrent_evolutions ELSE Len(agents))

\* run_evolution_cycle of the CORE agent is a coroutine function; the cycle
\* methods of the LEARN and GUARD agents are plain functions.
HasAsyncCycle(agent) == agent = "core"

\* The agents whose task asyncio.create_task has created when the loop over
\* the selected agents ends: all of them, or those before the first agent
\* whose cycle method returned a dict, for which create_task raises TypeError.
RECURSIVE CreatedTasks(_)
CreatedTasks(selected) ==
    IF selected = <<>> \/ ~HasAsyncCycle(Head(selected)) THEN <<>>
    ELSE <<Head(selected)>> \o CreatedTasks(Tail(selected))

CreateTaskRaises == Len(CreatedTasks(SelectedAgents)) < Len(SelectedAgents)

\* Faulty variant: the first MaxStoredCycles cycles are kept.
KeepLast_KeepsFirst(cycles) ==
    IF Len(cycles) > MaxStoredCycles
    THEN SubSeq(cycles, 1, MaxStoredCycles)
    ELSE cycles

\* The last MaxStoredCycles cycles
KeepLast(cycles) ==
    IF Len(cycles) > MaxStoredCycles
    THEN SubSeq(cycles, Len(cycles) - MaxStoredCycles + 1, Len(cycles))
    ELSE cycles

\* What an agent's cycle task can end with: a result with success true, a
\* result with success false, a result that carries an error.
TaskOutcomes == {"success", "no_success", "error"}

\* _run_evolution_cycle up to its first await of a task: the tasks are
\* created.  A TypeError of create_task is caught by the handler of the
\* method: the cycle ends without a record, the method returns None, the
\* tasks created before stay behind.
DoRunEvolutionCycleBegin(l) ==
    IF CreateTaskRaises
    THEN /\ cycle_call' = [op |-> "_run_evolution_cycle",
                           count |-> cycle_call.count + 1,
                           loop |-> l, result |-> None, recorded |-> FALSE,
                           created |-> CreatedTasks(SelectedAgents)]
         /\ UNCHANGED loop_tasks
    ELSE /\ loop_tasks' =
                [loop_tasks EXCEPT ![l] =
                    [pc |-> "in_cycle", cycle_id |-> cycle_call.count + 1,
                     started_at |-> now,
                     evolution_tasks |->
                         [k \in 1..Len(SelectedAgents) |->
                             [agent |-> SelectedAgents[k], state |-> "running"]]]]
         /\ cycle_call' = [cycle_call EXCEPT !.count = @ + 1]

\* One iteration of _evolution_cycle_loop begins: the system is running
RunEvolutionCycleBegin ==
    /\ cycle_call.count < MaxLoopCycles
    /\ is_running
    /\ \E l \in 1..Len(loop_tasks) :
           /\ loop_tasks[l].pc = "between_cycles"
           /\ DoRunEvolutionCycleBegin(l)
    /\ UNCHANGED <<now, supabase_client, performance_metrics, validationVars,
                   next_uuid, metricsVars, coreVars, tasks, config, is_running,
                   db_connection, agents, evolution_cycles, integration_call>>

\* The cycle task of one agent ends, in any order with the others.
EvolutionTaskEnds ==
    /\ \E l \in 1..Len(loop_tasks) :
         \E k \in 1..Len(loop_tasks[l].evolution_tasks), o \in TaskOutcomes :
           /\ loop_tasks[l].evolution_tasks[k].state = "running"
           /\ loop_tasks' =
                  [loop_tasks EXCEPT ![l].evolution_tasks[k].state = o]
    /\ UNCHANGED <<now, supabase_client, performance_metrics, validationVars,
                   next_uuid, metricsVars, coreVars, tasks, config, is_running,
                   db_connection, agents, evolution_cycles, integration_call,
                   cycle_call>>

\* Faulty variant: the cycle goes on without awaiting its tasks.
AllTasksDone_NoWait(evolution_tasks) == TRUE

\* The awaits of the tasks, one after the other, have all returned.
AllTasksDone(evolution_tasks) ==
    \A k \in 1..Len(evolution_tasks) : evolution_tasks[k].state # "running"

\* evolution_results: what each task returned
EvolutionResults(evolution_tasks) ==
    [k \in 1..Len(evolution_tasks) |->
        [agent |-> evolution_tasks[k].agent,
         success |-> evolution_tasks[k].state = "success",
         error |-> evolution_tasks[k].state = "error"]]

\* "error" not in result and result.get("success")
NeedsValidation(result) == ~result.error /\ result.success

\* _validate_evolution_results and the record of the cycle.  The results the
\* model validates are those of the CORE agent; at most one task reaches
\* this point.
DoRunEvolutionCycleEnd(l) ==
    LET evolution_results == EvolutionResults(loop_tasks[l].evolution_tasks)
        validated == \E k \in 1..Len(evolution_results) :
                         NeedsValidation(evolution_results[k])
    IN  /\ IF validated
           THEN DoValidateImprovement(CoreAgentId, ZeroImprovement)
           ELSE UNCHANGED <<validationVars, next_uuid>>
        /\ \E cycle_data \in
               {[cycle_id |-> loop_tasks[l].cycle_id,
                 started_at |-> loop_tasks[l].started_at,
                 evolution_results |-> evolution_results,
                 validation_results |->
                     [k \in 1..Len(evolution_results) |->
                         IF NeedsValidation(evolution_results[k])
                         THEN [agent |-> evolution_results[k].agent,
                               overall_passed |-> call'.result.overall_passed,
                               reason |-> "validated"]
                         ELSE [agent |-> evolution_results[k].agent,
                               overall_passed |-> FALSE,
                               reason |-> "evolution_error"]]]} :
               /\ evolution_cycles' = KeepLast(Append(evolution_cycles, cycle_data))
               /\ cycle_call' = [op |-> "_run_evolution_cycle",
                                 count |-> cycle_call.count, loop |-> l,
                                 result |-> None, recorded |-> TRUE,
                                 created |->
                                     [k \in 1..Len(evolution_results) |->
                                         evolution_results[k].agent]]
        /\ loop_tasks' = [loop_tasks EXCEPT ![l] = BetweenCycles]

\* The cycle of a loop task goes on after its awaits and is recorded.
RunEvolutionCycleEnd ==
    /\ \E l \in 1..Len(loop_tasks) :
           /\ loop_tasks[l].pc = "in_cycle"
           /\ AllTasksDone(loop_tasks[l].evolution_tasks)
           /\ DoRunEvolutionCycleEnd(l)
    /\ UNCHANGED <<now, supabase_client, performance_metrics, metricsVars,
                   coreVars, tasks, config, is_running, db_connection, agents,
                   integration_call>>

\* A loop task finds is_running false at the test of its while and ends.
LoopExits ==
    /\ ~is_running
    /\ \E l \in 1..Len(loop_tasks) :
           /\ loop_tasks[l].pc = "between_cycles"
           /\ loop_tasks' = [loop_tasks EXCEPT ![l].pc = "finished"]
    /\ UNCHANGED <<now, supabase_client, performance_metrics, validationVars,
                   next_uuid, metricsVars, coreVars, tasks, config,
                   is_running, db_connection, agents, evolution_cycles,
                   integration_call, cycle_call>>

InitIntegrationSystem ==
    /\ InitStore({<<>>})
    /\ InitValidationSystem
    /\ InitMetricsSystem
    /\ InitCoreAgent
    /\ tasks = NoTasks
    /\ call = NoCall
    /\ config \in [max_concurrent_evolutions : 1..3, auto_start : BOOLEAN]
    /\ is_running = FALSE
    /\ db_connection = FALSE
    /\ agents = <<>>
    /\ evolution_cycles = <<>>
    /\ loop_tasks = <<>>
    /\ integration_call = NoIntegrationCall
    /\ cycle_call = NoCycleCall

NextIntegration ==
    \/ StartSystemBegin
    \/ StartSystemEnd
    \/ StopSystem
    \/ RunEvolutionCycleBegin
    \/ EvolutionTaskEnds
    \/ RunEvolutionCycleEnd
    \/ LoopExits

SpecIntegration == InitIntegrationSystem /\ [][NextIntegration]_vars

\* A system that has been running for a while, its loop task asleep.  With
\* max_concurrent_evolutions = 1 it has recorded n cycles, in which the task
\* of the CORE agent ended with an error; with more it has recorded none.
EarlierCycles(n) ==
    [i \in 1..n |->
        [cycle_id |-> i - n, started_at |-> StartDay,
         evolution_results |->
             <<[agent |-> "core", success |-> FALSE, error |-> TRUE]>>,
         validation_results |->
             <<[agent |-> "core", overall_passed |-> FALSE,
                reason |-> "evolution_error"]>>]]

InitCycleLog ==
    /\ InitStore({<<>>})
    /\ InitValidationSystem
    /\ InitMetricsSystem
    /\ InitCoreAgent
    /\ tasks = NoTasks
    /\ call = NoCall
    /\ config \in [max_concurrent_evolutions : 1..3, auto_start : {TRUE}]
    /\ is_running = TRUE
    /\ db_connection = TRUE
    /\ agents = AgentNames
    /\ evolution_cycles \in
           {EarlierCycles(n) :
               n \in IF config.max_concurrent_evolutions = 1
                     THEN {0, MaxStoredCycles - 1, MaxStoredCycles} ELSE {0}}
    /\ loop_tasks = <<BetweenCycles>>
    /\ integration_call = [op |-> "start_system", outcome |-> "started"]
    /\ cycle_call = NoCycleCall

SpecCycleLog == InitCycleLog /\ [][NextIntegration]_vars

----------------------------------------------------------------------------
(* Properties of validate_improvement *)

\* validate_improvement has been called and has returned call.result
Returned == call.agent \in Agents /\ ~call.pending

Field(f) == Get(call.data, f, 0)

FieldsNumeric ==
    /\ IsNum(Field("old_performance"))
    /\ IsNum(Field("new_performance"))
    /\ IsNum(Field("improvement_percentage"))

NoFieldIsStr ==
    /\ ~IsStr(Field("old_performance"))
    /\ ~IsStr(Field("new_performance"))
    /\ ~IsStr(Field("improvement_percentage"))

Recorded ==
    /\ validation_history # <<>>
    /\ validation_history[Len(validation_history)] = call.result

\* C2: a verdict is approved exactly when every criterion passed and its
\* confidence score is at least 0.8; a call that ended in an internal error
\* is not approved.
C2_ApprovedIffAllPassedAndConfident ==
    Returned =>
        IF call.raised THEN ~call.result.overall_passed
        ELSE call.result.overall_passed <=>
                 /\ \A c \in Range(CriteriaOrder) :
                        call.result.validation_results[c].passed
                 /\ call.result.confidence_score >= 80

C2_Witness ==
    /\ Returned /\ ~call.raised
    /\ call.result.overall_passed
    /\ call.result.confidence_score >= 80

\* C3: every call of validate_improvement, whatever its outcome, extends
\* validation_history by exactly the verdict it returns and leaves the
\* earlier entries as they were.
C3_EveryCallAppendsOneVerdict ==
    [][call' # call => validation_history' = Append(validation_history, call'.result)]_vars

\* C4: for malformed input (a missing, non-numeric, NaN or out-of-range
\* field) and for under-evidenced input (fewer than min_sample_size samples,
\* store unavailable or failing, zero variance of the samples) the call
\* returns a verdict that is not approved and carries a rationale: the error
\* of the call, or recommendations that name a failed criterion.
Malformed ==
    \/ \E f \in {"old_performance", "new_performance", "improvement_percentage"} :
           call.data[f].kind # "num"
    \/ call.data.old_performance.v < 0 \/ call.data.old_performance.v > 100
    \/ call.data.new_performance.v < 0 \/ call.data.new_performance.v > 100
    \/ call.data.improvement_percentage.v < -1000
    \/ call.data.improvement_percentage.v > 10000

UnderEvidenced ==
    \/ supabase_client # "ok"
    \/ Len(PerformanceHistory(call.agent)) < 5
    \/ VarNum(PerformanceHistory(call.agent)) = 0

C4_MalformedInputIsRejectedWithRationale ==
    (Returned /\ (Malformed \/ UnderEvidenced)) =>
        /\ ~call.result.overall_passed
        /\ IF call.raised THEN "error" \in DOMAIN call.result
           ELSE /\ call.result.recommendations # <<>>
                /\ RecApproved \notin Range(call.result.recommendations)

\* C5 as stated: a claim whose old or new performance is outside [0,1] or
\* not finite is rejected by the bounds check before any other criterion is
\* evaluated, and the rejected verdict is recorded in validation_history
\* with the bounds rationale.
OutOfBounds ==
    \/ IsNaN(Field("old_performance")) \/ IsNaN(Field("new_performance"))
    \/ (IsNum(Field("old_performance"))
            /\ (Field("old_performance").v < 0 \/ Field("old_performance").v > 100))
    \/ (IsNum(Field("new_performance"))
            /\ (Field("new_performance").v < 0 \/ Field("new_performance").v > 100))

C6_ZeroBaselineNeverApproved ==
    (Returned /\ IsNum(Field("old_performance")) /\ Field("old_performance").v <= 0)
        => ~call.result.overall_passed

\* C7: for numeric fields the practical-significance criterion passes if and
\* only if improvement_percentage >= 20.0 and new > old and |new - old| >= 0.05;
\* the value 20.0 itself passes, anything below it fails.
C7_PracticalPassesIffThresholds ==
    Returned =>
        ( (~call.raised /\ call.result.validation_results.practical.passed) <=>
            /\ FieldsNumeric
            /\ Field("improvement_percentage").v >= min_improvement_percentage
            /\ Field("new_performance").v > Field("old_performance").v
            /\ Abs(Field("new_performance").v - Field("old_performance").v)
                   >= MeaningfulChange )

C7_Witness ==
    /\ Returned /\ ~call.raised
    /\ Field("improvement_percentage") = Num(200)
    /\ call.result.validation_results.practical.passed

\* A claim within bounds that meets the magnitude criterion, for an agent
\* with at least min_sample_size samples whose mean is about the baseline
\* (within 0.02) and without improvement records in the store.
WellEvidenced ==
    LET h == PerformanceHistory(call.agent)
    IN  /\ Returned /\ FieldsNumeric /\ ~OutOfBounds
        /\ Field("improvement_percentage").v >= min_improvement_percentage
        /\ Field("improvement_percentage").v <= 10000
        /\ Field("new_performance").v - Field("old_performance").v >= MeaningfulChange
        /\ Len(h) >= min_sample_size
        /\ Abs(SumSeq(h) - Len(h) * Field("old_performance").v) <= 2 * Len(h)
        /\ RecentImprovements(call.agent, PatternDays) = <<>>

BelowMagnitude ==
    \/ (IsNum(Field("improvement_percentage"))
           /\ Field("improvement_percentage").v < min_improvement_percentage)
    \/ (IsNum(Field("old_performance")) /\ IsNum(Field("new_performance"))
           /\ Abs(Field("new_performance").v - Field("old_performance").v)
                  < MeaningfulChange)

\* C9 as stated: any claim below the magnitude thresholds is rejected
\* whatever the history and the other criteria, and the rationale of its
\* verdict names the practical-significance failure.
C9_AnyBelowMagnitudeNamesMagnitude ==
    (Returned /\ BelowMagnitude) =>
        /\ ~call.result.overall_passed
        /\ ~call.raised
        /\ RecPractical \in Range(call.result.recommendations)

\* C9 amended: a claim below the magnitude thresholds is rejected whatever
\* the history and the other criteria.  If none of its fields is a
\* non-numeric object, the practical criterion fails and the recommendations
\* name the practical-significance failure; otherwise the call ends in the
\* error verdict, whose only rationale is the error.
C9_BelowMagnitudeIsRejected ==
    (Returned /\ BelowMagnitude) =>
        /\ ~call.result.overall_passed
        /\ IF NoFieldIsStr
           THEN /\ ~call.raised
                /\ ~call.result.validation_results.practical.passed
                /\ RecPractical \in Range(call.result.recommendations)
           ELSE /\ call.raised
                /\ "error" \in DOMAIN call.result
                /\ "recommendations" \notin DOMAIN call.result

C9_Witness ==
    /\ Returned /\ ~call.raised
    /\ Field("improvement_percentage") = Num(214)
    /\ Field("old_performance") = Num(70)
    /\ Field("new_performance") = Num(74)
    /\ call.result.validation_results.statistical.passed
    /\ call.result.validation_results.bounds.passed
    /\ ~call.result.overall_passed

----------------------------------------------------------------------------
(* Properties of the CORE agent and of the metric store *)

\* C1: baseline_performance is modified only inside validate_improvements,
\* and only when the verdict of that validation is positive and
\* improvement_percentage >= min_improvement_threshold; every other step
\* (analysis, generation, implementation, a rejected or failed validation,
\* saving the cycle's metrics) leaves it unchanged.
C1_BaselineChangesOnlyOnApprovedValidation ==
    [][baseline_performance' # baseline_performance =>
          /\ pc = "validate"
          /\ cycle.overall_success
          /\ call'.agent = CoreAgentId
          /\ call'.validation_id = next_uuid
          /\ ~call'.raised
          /\ call'.result.overall_passed
          /\ call'.data.improvement_percentage.v >= min_improvement_threshold]_vars

\* A cycle whose validation ran and rejected the claim, the baseline as it was.
C1_Witness ==
    /\ pc = "idle"
    /\ cycle.outcome = "error"
    /\ call.agent = CoreAgentId
    /\ ~call.raised
    /\ ~call.result.overall_passed
    /\ call.result \in Range(validation_history)
    /\ current_performance > 0
    /\ baseline_performance = 0

\* The samples of one (agent, metric) series, in the order they were recorded
Series(agent, metric_type) ==
    SelectSeq(metrics_history,
              LAMBDA m : m.agent_id = agent /\ m.metric_type = metric_type)

\* C10: once a later record has happened on a series, no sample of that
\* series older than metrics_retention_days relative to that latest write is
\* still held in the metric store.
C10_RetentionBound ==
    \A agent \in Agents, metric_type \in MetricTypes :
        LET s == Series(agent, metric_type)
        IN  \A i \in 1..Len(s) :
                s[i].timestamp + metrics_retention_days >= s[Len(s)].timestamp

\* C11: a call to record a metric whose value is not a finite number, or
\* whose insert into the backing table fails, reports failure and leaves
\* metrics_history and 'system_metrics' exactly as they were.
C11_RecordingIsFailFast ==
    [][( /\ metric_call' # metric_call
         /\ (~IsNum(metric_call'.value) \/ supabase_client = "failing") )
       => /\ ~metric_call'.returned
          /\ metrics_history' = metrics_history
          /\ system_metrics' = system_metrics]_vars

\* A store is chronological within each series and its ids are distinct.
ChronologicalAndUnique(store) ==
    /\ \A i, j \in 1..Len(store) :
           (i < j /\ store[i].agent_id = store[j].agent_id
                  /\ store[i].metric_type = store[j].metric_type)
               => store[i].timestamp <= store[j].timestamp
    /\ \A i, j \in 1..Len(store) : i # j => store[i].id # store[j].id

\* C12: the samples of each (agent, metric-type) series are held in
\* non-decreasing timestamp order, in the order of their insertion, and no
\* two stored samples share an id; in metrics_history and in 'system_metrics'.
C12_SeriesChronologicalIdsUnique ==
    ChronologicalAndUnique(metrics_history) /\ ChronologicalAndUnique(system_metrics)

\* A series holding two samples recorded at different times.
C12_Witness ==
    \E i, j \in 1..Len(metrics_history) :
        /\ i < j
        /\ metrics_history[i].agent_id = metrics_history[j].agent_id
        /\ metrics_history[i].metric_type = metrics_history[j].metric_type
        /\ metrics_history[i].timestamp < metrics_history[j].timestamp
        /\ metrics_history[j] \in Range(system_metrics)

----------------------------------------------------------------------------
(* Properties of the read operations *)

\* No row of the agent in the window carries a performance value.
NoValuesInWindow(agent, time_window_hours) ==
    Values(SelectSeq(performance_metrics,
                     LAMBDA r : r.agent_id = agent
                                /\ InWindow(r.timestamp, time_window_hours)),
           "current_value") = <<>>

\* A performance summary whose count is 0 and whose numeric fields are 0.
SummaryIsZero(perf) ==
    /\ "metrics_count" \in DOMAIN perf
    /\ perf.metrics_count = 0
    /\ perf.average_performance.n = 0
    /\ \A f \in {"max_performance", "min_performance", "last_performance"} :
           f \in DOMAIN perf => perf[f] = 0
    /\ "performance_variance" \in DOMAIN perf => perf.performance_variance.n = 0

\* The performance summary a finished read returned for one agent, if any.
SummaryRead ==
    IF read_call.op = "get_performance_metrics"
    THEN <<[window |-> PerformanceWindowHours, summary |-> read_call.output]>>
    ELSE IF read_call.op = "collect_agent_metrics"
    THEN <<[window |-> read_call.output.time_window_hours,
            summary |-> read_call.output.performance]>>
    ELSE <<>>

\* C13: with a working store, the summary of an agent that has no valued
\* sample in the window (unknown agent, no rows, or rows whose values are all
\* missing) has count 0 and every numeric field 0.
C13_EmptySummaryIsZero ==
    (supabase_client = "ok" /\ SummaryRead # <<>>
        /\ NoValuesInWindow(read_call.agent_id, SummaryRead[1].window))
    => SummaryIsZero(SummaryRead[1].summary)

\* The health analysis a finished read returned, if it returned one.
AnalysisRead ==
    IF read_call.op = "analyze_system_health"
           /\ "health_indicators" \in DOMAIN read_call.output
    THEN <<read_call.output>>
    ELSE <<>>

\* C14: the health_score reported by the health analysis lies in the closed
\* interval [0, 1] (0 to 100 hundredths) for every store.
C14_HealthScoreInUnitInterval ==
    AnalysisRead # <<>> =>
        /\ FracGe(AnalysisRead[1].health_indicators.health_score, Frac(0, 1))
        /\ FracGe(Frac(100, 1), AnalysisRead[1].health_indicators.health_score)

\* The active agents that have a valued performance sample in the analysis
\* window, in table order, and the means of their samples.
AgentsWithData ==
    SelectSeq(ActiveAgents,
              LAMBDA r : ~NoValuesInWindow(r.id, analysis_window_hours))

MeansOfAgentsWithData ==
    [i \in 1..Len(AgentsWithData) |->
        Mean(Values(SelectSeq(performance_metrics,
                              LAMBDA r : r.agent_id = AgentsWithData[i].id
                                         /\ InWindow(r.timestamp,
                                                     analysis_window_hours)),
                    "current_value"))]

\* C15: when no active agent has a performance sample in the window, or there
\* is no active agent, analyze_system_health reports system_health ERROR; and
\* the average performance of an analysis is the mean over the agents that
\* have data.
C15_NoDataIsError ==
    read_call.op = "analyze_system_health" =>
        /\ AgentsWithData = <<>> => read_call.output.system_health = "ERROR"
        /\ (AnalysisRead # <<>> /\ AgentsWithData # <<>>) =>
               AnalysisRead[1].health_indicators.average_performance
                   = FracMean(MeansOfAgentsWithData)

\* C16: no sample is recorded in these behaviours; while the clock stands
\* still, a request for an agent's performance metrics returns what the
\* previous request for that agent returned, from the cache or recomputed.
C16_PerformanceMetricsIdempotent ==
    [][now' = StartDay =>
          \A agent \in Agents :
              performance_seen[agent] # NoRead =>
                  performance_seen'[agent] = performance_seen[agent]]_vars

\* The stored metric samples: the local history and the sample tables.
storedSamples == <<metrics_history, system_metrics, performance_metrics>>

\* C17: a step of validate_improvement, collect_agent_metrics,
\* get_performance_metrics, analyze_system_health or generate_report leaves
\* metrics_history and the sample tables as they were.
C17_ReadsLeaveSamplesUnchanged ==
    [][(read_call' # read_call \/ call' # call) =>
          storedSamples' = storedSamples]_vars

\* A read has returned on a system that holds a recorded sample.
C17_Witness ==
    /\ read_call.op \in {"get_performance_metrics", "collect_agent_metrics",
                         "analyze_system_health", "generate_report"}
    /\ metrics_history = <<RecordedBefore>>

----------------------------------------------------------------------------
(* Properties of concurrent recording *)

\* The stored samples that carry the id of a task's record.
SamplesOf(store, t) ==
    SelectSeq(store, LAMBDA m : m.id = tasks[t].id)

DoneTasks == {t \in TaskIds : tasks[t].pc = "done"}

\* C18: under every interleaving of the recording tasks, the sample of each
\* finished record is held once and whole, no other sample is held, with a
\* working client the table holds what the local history holds in every
\* state a reader can see, and each series stays chronological.
C18_ConcurrentWritersConsistent ==
    /\ \A t \in DoneTasks :
           /\ Len(SamplesOf(metrics_history, t)) = 1
           /\ SamplesOf(metrics_history, t)[1].agent_id = tasks[t].agent_id
           /\ SamplesOf(metrics_history, t)[1].metric_type = tasks[t].metric_type
           /\ SamplesOf(metrics_history, t)[1].value = tasks[t].value
    /\ Len(metrics_history) = Cardinality(DoneTasks)
    /\ supabase_client = "ok" => system_metrics = metrics_history
    /\ ChronologicalAndUnique(metrics_history)

\* Two tasks were waiting at the same time and both have recorded on one
\* series, the second a day or more after the first.
C18_Witness ==
    /\ DoneTasks = TaskIds
    /\ tasks["t1"].agent_id = tasks["t2"].agent_id
    /\ tasks["t2"].id < tasks["t1"].id
    /\ metrics_history[1].timestamp < metrics_history[2].timestamp
    /\ system_metrics = metrics_history

----------------------------------------------------------------------------
(* Properties of the integration *)

\* The parts a cycle result is to cover.
CycleResultParts ==
    {"core_evolution", "learn_collaboration", "guard_security",
     "metrics_analysis", "validation_results"}

\* C19: every execution of an evolution cycle on a started system returns a
\* result that is not None, has overall_success true and covers the CORE
\* evolution, the LEARN collaboration, the GUARD security run, the metrics
\* analysis and the validation results; and afterwards at least one cycle
\* record is stored.
C19_CycleYieldsRecordedSuccess ==
    cycle_call.op = "_run_evolution_cycle" =>
        /\ cycle_call.result # None
        /\ "overall_success" \in DOMAIN cycle_call.result
        /\ cycle_call.result.overall_success
        /\ CycleResultParts \subseteq DOMAIN cycle_call.result
        /\ Len(evolution_cycles) > 0

\* C20: once start_system has returned (having started the system or found
\* it running) is_running is true, and it stays so until the next call;
\* once stop_system has returned it is false; once start_system has raised
\* it is false.
C20_RunningFollowsStartStop ==
    /\ (integration_call.op = "start_system"
           /\ integration_call.outcome \in {"started", "already_running"})
          => is_running
    /\ integration_call.op = "stop_system" => ~is_running
    /\ (integration_call.op = "start_system"
           /\ integration_call.outcome = "raised") => ~is_running

\* The system was started, the loop has run a cycle since, and it is still
\* running.
C20_Witness ==
    /\ integration_call.op = "start_system"
    /\ integration_call.outcome = "started"
    /\ cycle_call.count > 0
    /\ is_running

----------------------------------------------------------------------------
(* The grading of the health score *)

\* The status the strict breakpoints give a score: above 0.8 EXCELLENT,
\* above 0.6 GOOD, above 0.4 FAIR, otherwise POOR.
StrictStatus(score) ==
    IF FracLt(Frac(80, 1), score) THEN "EXCELLENT"
    ELSE IF FracLt(Frac(60, 1), score) THEN "GOOD"
    ELSE IF FracLt(Frac(40, 1), score) THEN "FAIR"
    ELSE "POOR"

\* C21: the status of a health analysis follows its health_score by strict
\* breakpoints: above 0.8 EXCELLENT, above 0.6 GOOD, above 0.4 FAIR, anything
\* else POOR; a score of exactly 0.8, 0.6 or 0.4 is in the lower class.
C21_StatusByStrictBreakpoints ==
    AnalysisRead # <<>> =>
        /\ AnalysisRead[1].health_indicators.overall_health
               = StrictStatus(AnalysisRead[1].health_indicators.health_score)
        /\ AnalysisRead[1].system_health
               = AnalysisRead[1].health_indicators.overall_health

----------------------------------------------------------------------------
(* The alerts of the health analysis *)

\* The alerts of one type an analysis holds for one agent.
AlertsOf(analysis, agent, types) ==
    SelectSeq(analysis.alerts,
              LAMBDA a : a.agent_id = agent /\ a.type \in types)

\* The valued performance samples of the agent in the analysis window.
WindowValues(agent) ==
    Values(SelectSeq(performance_metrics,
                     LAMBDA r : r.agent_id = agent
                                /\ InWindow(r.timestamp, analysis_window_hours)),
           "current_value")

\* The trend of a series is (mean(recent) - mean(older)) / mean(older), the
\* recent samples being the last five; it is below the negative of the
\* configured drop (performance_drop, in percent) when
\* 100 * mean(recent) < (100 - performance_drop) * mean(older).
TrendBelowDrop(values) ==
    /\ Len(values) > 5
    /\ LET older == SubSeq(values, 1, Len(values) - 5)
           recent == SubSeq(values, Len(values) - 4, Len(values))
       IN  /\ SumSeq(older) > 0
           /\ FracLt(FracTimes(100, Mean(recent)),
                     FracTimes(100 - performance_drop, Mean(older)))

\* C22: for every analysed agent, a low-performance alert is in the analysis
\* exactly when the agent's last performance is below the configured floor,
\* with severity HIGH when it is below 0.4 and MEDIUM otherwise; and a
\* PERFORMANCE_DECLINE alert of severity MEDIUM is in the analysis exactly
\* when the agent's trend is below the configured negative drop.
C22_AlertsFollowThresholds ==
    AnalysisRead # <<>> =>
        \A i \in 1..Len(AnalysisRead[1].system_metrics) :
            LET entry == AnalysisRead[1].system_metrics[i]
                perf == GetDict(entry.metrics, "performance")
                score == GetNumber(perf, "last_performance", 100)
                low == AlertsOf(AnalysisRead[1], entry.id,
                                {"PERFORMANCE_LOW", "LOW_PERFORMANCE"})
                decline == AlertsOf(AnalysisRead[1], entry.id,
                                    {"PERFORMANCE_DECLINE"})
            IN  /\ (score < performance_drop) <=> (low # <<>>)
                /\ \A k \in 1..Len(low) :
                       low[k].severity = IF score < 40 THEN "HIGH" ELSE "MEDIUM"
                /\ TrendBelowDrop(WindowValues(entry.id)) <=> (decline # <<>>)
                /\ \A k \in 1..Len(decline) : decline[k].severity = "MEDIUM"

----------------------------------------------------------------------------
(* The evidence a verdict rests on *)

\* The performance samples the store holds for the agent over the history
\* period, whether or not the client can read them.
HistoricalSamples(agent) ==
    SelectSeq(performance_metrics,
              LAMBDA r : /\ r.agent_id = agent
                         /\ r.current_value.kind # "none"
                         /\ r.timestamp >= now - HistoryDays)

\* The agent of the call has fewer than min_sample_size samples to show, or
\* the store cannot be read.
TooFewSamples ==
    \/ supabase_client # "ok"
    \/ Len(HistoricalSamples(call.agent)) < min_sample_size

\* C23: when the agent has fewer than min_sample_size historical samples
\* (the store being unavailable counts as none), the statistical criterion
\* of a verdict fails for want of samples, and the claim is not approved.
C23_TooFewSamplesNeverApproved ==
    (Returned /\ TooFewSamples) =>
        /\ ~call.result.overall_passed
        /\ ~call.raised =>
               /\ ~call.result.validation_results.statistical.passed
               /\ call.result.validation_results.statistical.outcome
                      = "insufficient"

\* A claim that meets every other criterion, for an agent with one sample
\* fewer than min_sample_size, the samples not all equal: rejected.
C23_Witness ==
    /\ Returned /\ ~call.raised
    /\ supabase_client = "ok"
    /\ Len(HistoricalSamples(call.agent)) = min_sample_size - 1
    /\ \E i \in 1..(min_sample_size - 1) :
           HistoricalSamples(call.agent)[i].current_value
               # HistoricalSamples(call.agent)[1].current_value
    /\ \A c \in Range(CriteriaOrder) \ {"statistical"} :
           call.result.validation_results[c].passed
    /\ call.result.validation_results.statistical.outcome = "insufficient"
    /\ ~call.result.overall_passed


\* The verdicts that approved an improvement of the agent before the call.
PriorApproved(agent) ==
    SelectSeq(validation_history,
              LAMBDA v : /\ v.agent_id = agent
                         /\ v.validation_id < call.validation_id
                         /\ v.overall_passed)

\* C24: the consistency criterion judges a claim against the improvements
\* of the agent that were approved before; when there is none it passes,
\* whatever other improvement records the store holds.
C24_ConsistencyOnlyAgainstApproved ==
    (Returned /\ ~call.raised /\ PriorApproved(call.agent) = <<>>) =>
        call.result.validation_results.consistency.passed

----------------------------------------------------------------------------
(* Properties of the evolution loop *)

\* The loop tasks that have not ended: each of them runs a cycle whenever it
\* finds is_running true at the test of its while.
ActiveLoops == {l \in 1..Len(loop_tasks) : loop_tasks[l].pc # "finished"}

\* C25: at most one evolution loop is active at any time, under every
\* interleaving of start_system, stop_system and the loop's sleeps; no two
\* loops are inside a cycle at once.
C25_AtMostOneLoop ==
    /\ Cardinality(ActiveLoops) <= 1
    /\ Cardinality({l \in ActiveLoops : loop_tasks[l].pc = "in_cycle"}) <= 1


\* The last n elements of a sequence, all of them when it has fewer.
LastOf(s, n) == IF Len(s) > n THEN SubSeq(s, Len(s) - n + 1, Len(s)) ELSE s

\* The cycles that complete in a step: a loop task leaves its cycle.
Completing(before, after) ==
    {l \in 1..Len(before) :
        before[l].pc = "in_cycle" /\ after[l].pc = "between_cycles"}

\* C26: evolution_cycles never holds more than 100 records; it changes only
\* when a cycle completes, the record of that cycle then goes to the end
\* while the records before keep their order and only the oldest are
\* dropped; a cycle that ends in an exception adds no record.
C26_CycleLogBoundedAndOrdered ==
    [][/\ Len(evolution_cycles') <= 100
       /\ evolution_cycles' # evolution_cycles =>
              Completing(loop_tasks, loop_tasks') # {}
       /\ \A l \in Completing(loop_tasks, loop_tasks') :
              /\ evolution_cycles' # <<>>
              /\ evolution_cycles'[Len(evolution_cycles')].cycle_id
                     = loop_tasks[l].cycle_id
              /\ evolution_cycles' =
                     LastOf(Append(evolution_cycles,
                                   evolution_cycles'[Len(evolution_cycles')]),
                            100)
       /\ (cycle_call' # cycle_call /\ cycle_call'.op = "_run_evolution_cycle"
               /\ ~cycle_call'.recorded)
              => evolution_cycles' = evolution_cycles]_vars

\* The log is full, the oldest of the earlier records has been dropped and
\* the latest cycle is the last record.
C26_Witness ==
    /\ Len(evolution_cycles) = 100
    /\ cycle_call.op = "_run_evolution_cycle" /\ cycle_call.recorded
    /\ evolution_cycles[1].cycle_id > 1 - 100
    /\ evolution_cycles[100].cycle_id >= 1


\* No agent occurs twice in a sequence of agent names.
NoAgentTwice(names) ==
    \A i, j \in 1..Len(names) : names[i] = names[j] => i = j

\* The agents whose tasks a loop task has started in its cycle.
StartedIn(loop) ==
    [k \in 1..Len(loop.evolution_tasks) |-> loop.evolution_tasks[k].agent]

\* C27: a cycle starts at most max_concurrent_evolutions agent tasks, each
\* for a registered agent and no agent twice; a cycle is recorded only when
\* every task it started has ended; a task that ended with an error is
\* recorded as an error result and is given the rejected validation
\* {overall_passed: false, reason: evolution_error} without being validated.
C27_TasksBoundedAwaitedAndJudged ==
    [][/\ \A l \in 1..Len(loop_tasks') :
              /\ Len(StartedIn(loop_tasks'[l])) <= config.max_concurrent_evolutions
              /\ NoAgentTwice(StartedIn(loop_tasks'[l]))
              /\ Range(StartedIn(loop_tasks'[l])) \subseteq Range(agents')
       /\ cycle_call'.op = "_run_evolution_cycle" =>
              /\ Len(cycle_call'.created) <= config.max_concurrent_evolutions
              /\ NoAgentTwice(cycle_call'.created)
              /\ Range(cycle_call'.created) \subseteq Range(agents')
       /\ \A l \in Completing(loop_tasks, loop_tasks') :
              LET evolution_tasks == loop_tasks[l].evolution_tasks
                  cycle_data == evolution_cycles'[Len(evolution_cycles')]
              IN  /\ \A k \in 1..Len(evolution_tasks) :
                         evolution_tasks[k].state \in TaskOutcomes
                  /\ Len(cycle_data.evolution_results) = Len(evolution_tasks)
                  /\ \A k \in 1..Len(evolution_tasks) :
                         evolution_tasks[k].state = "error" =>
                             /\ cycle_data.evolution_results[k].error
                             /\ ~cycle_data.validation_results[k].overall_passed
                             /\ cycle_data.validation_results[k].reason
                                    = "evolution_error"
                  /\ (\A k \in 1..Len(evolution_tasks) :
                          evolution_tasks[k].state = "error")
                         => validation_history' = validation_history]_vars

\* A cycle whose one task ended with an error has been recorded.
C27_Witness ==
    /\ cycle_call.op = "_run_evolution_cycle" /\ cycle_call.recorded
    /\ cycle_call.created = <<"core">>
    /\ evolution_cycles # <<>>
    /\ evolution_cycles[Len(evolution_cycles)].cycle_id >= 1
    /\ evolution_cycles[Len(evolution_cycles)].evolution_results[1].error
    /\ evolution_cycles[Len(evolution_cycles)].validation_results[1].reason
           = "evolution_error"
    /\ validation_history = <<>>

----------------------------------------------------------------------------
(* The validation cache *)

\* The verdicts validation_history holds for an agent, oldest first.
HistoryOf(agent) ==
    SelectSeq(validation_history, LAMBDA v : v.agent_id = agent)

\* C28: for every agent, validation_cache holds the latest verdict that
\* validation_history holds for the agent, and nothing when the history
\* holds none.
C28_CacheIsLatestOfHistory ==
    \A agent \in Agents :
        IF HistoryOf(agent) = <<>>
        THEN validation_cache[agent] = None
        ELSE validation_cache[agent]
                 = HistoryOf(agent)[Len(HistoryOf(agent))]

\* An agent was validated twice, approved once and rejected once, and the
\* other agent once since; the cache of the first holds its second verdict.
C28_Witness ==
    /\ Len(validation_history) = 3
    /\ validation_history[1].agent_id = validation_history[2].agent_id
    /\ validation_history[1].overall_passed # validation_history[2].overall_passed
    /\ validation_history[3].agent_id # validation_history[1].agent_id
    /\ validation_cache[validation_history[1].agent_id] = validation_history[2]

----------------------------------------------------------------------------
(* Completion of the health analysis *)

\* C29: with a working store and at least one active agent the health
\* analysis completes for every store: it returns one of the four grades
\* with its list of alerts, never ERROR, and keeps the result as
\* last_analysis.
C29_AnalysisCompletes ==
    (read_call.op = "analyze_system_health" /\ supabase_client = "ok"
         /\ ActiveAgents # <<>>) =>
        /\ read_call.output.system_health
               \in {"EXCELLENT", "GOOD", "FAIR", "POOR"}
        /\ "alerts" \in DOMAIN read_call.output
        /\ last_analysis = read_call.output

----------------------------------------------------------------------------
(* Progress of the acceptance gate *)

\* A cycle has implemented an improvement, measured a performance above the
\* baseline and had it judged by the validation system.
ImprovementJudged ==
    /\ cycle.overall_success
    /\ cycle.outcome \in {"error", "completed"}
    /\ call.agent = CoreAgentId
    /\ current_performance > baseline_performance

\* In no cycle is the baseline replaced: a fresh agent keeps its baseline of
\* 0 and an empty improvement_history in every state.
BaselineStaysInitial ==
    baseline_performance = 0 /\ improvement_history = <<>>

============================================================================
